---------------------------- MODULE Spec2Model ----------------------------
(***************************************************************************)
(* State-machine model of the resilient fetch and media mirror pipeline   *)
(* of anything-md: robustFetch (src/src/config.ts), uploadImages with its  *)
(* helpers (src/src/r2.ts) and the request handler (src/unnamed/part_000). *)
(*                                                                         *)
(* Strings are sequences of one-character strings, so that the string      *)
(* operations of the code (endsWith, replace, includes, concatenation)     *)
(* are computed and not assumed.                                           *)
(***************************************************************************)
EXTENDS Integers, Sequences, FiniteSets, TLC

VARIABLES
    rf,         \* the robustFetch call under observation (SpecFetch)
    trace,      \* history: the outcome of every request robustFetch issued
    delays,     \* history: the duration handed to setTimeout by every sleep
    env,        \* the Worker's environment bindings (configuration)
    imageUrls,  \* uploadImages: its argument
    pc,         \* uploadImages: "idle", "running", "returned" or "rejected"
    i,          \* uploadImages: the loop variable of the window loop
    win,        \* uploadImages: the indices of imageUrls in the current window
    task,       \* uploadImages: per index of imageUrls, its async task
    stats,      \* uploadImages: { uploaded, skipped, failed }
    bucket,     \* the R2 bucket: key -> object
    log,        \* history: what the mirror did, per index and per key
    input,      \* the arguments of the pure functions under observation (SpecPure)
    output,     \* what those functions returned
    hpc,        \* the request handler: where it stands
    request,    \* the request handler: the request it was given
    document,   \* what the target URL answers the handler's fetch with
    conversion, \* what env.AI.toMarkdown answers with
    response    \* the response the handler returned

vars == <<rf, trace, delays, env, imageUrls, pc, i, win, task, stats, bucket, log,
          input, output, hpc, request, document, conversion, response>>

fetchVars == <<rf, trace, delays>>
mirrorVars == <<env, imageUrls, pc, i, win, task, stats, bucket, log>>
pureVars == <<input, output>>
handlerVars == <<hpc, request, document, conversion, response>>

-----------------------------------------------------------------------------
(* Bounds of the model *)

\* the largest maxAttempts option an observed robustFetch call is given
MaxAttemptsBound == 3

\* Math.random() is drawn from { j / JitterSteps : j \in 0 .. JitterSteps-1 }
JitterSteps == 2

\* the longest imageUrls list handed to uploadImages
MaxUrls == 3

\* the longest imageUrls list of the batches whose hosts and allow-list vary
MaxItems == 2

-----------------------------------------------------------------------------
(* Values *)

\* A settled value of a promise of a Response: undefined, a response, or a
\* thrown error.  `at` is the attempt whose request produced it.
NoValue == [kind |-> "none", status |-> 0, err |-> "", at |-> 0]

Response(status, at) == [kind |-> "response", status |-> status, err |-> "", at |-> at]

Thrown(err, at) == [kind |-> "error", status |-> 0, err |-> err, at |-> at]

\* HTTP statuses the remote side answers with in the model
Statuses == {200, 404, 429, 503}

\* network-level exceptions of fetch(): a connection error, or the
\* AbortSignal.timeout firing
NetErrors == {"network", "timeout"}

\* Response.ok
Ok(status) == status >= 200 /\ status <= 299

RECURSIVE Pow2(_)
Pow2(n) == IF n <= 0 THEN 1 ELSE 2 * Pow2(n - 1)

-----------------------------------------------------------------------------
(* robustFetch, src/src/config.ts *)

DEFAULTS == [maxAttempts |-> 3, baseDelay |-> 800, timeout |-> 15000]

\* every client and server error taken as transient
RETRYABLE_STATUS_AnyError == 400 .. 599

RETRYABLE_STATUS == {408, 429, 500, 502, 503, 504}

\* the jitter factor drawn from [0, 1) instead of [0.5, 1)
sleep_FullJitter(base, attempt, j) ==
    LET exponential == base * Pow2(attempt - 1)
    IN  (2 * exponential * j + JitterSteps) \div (2 * JitterSteps)

\* sleep(base, attempt): the argument of setTimeout, with Math.random() = j / JitterSteps.
\* jitter = exponential * (0.5 + random * 0.5); Math.round rounds half up.
sleep(base, attempt, j) ==
    LET exponential == base * Pow2(attempt - 1)
        num == exponential * (JitterSteps + j)
        den == 2 * JitterSteps
    IN  (2 * num + den) \div (2 * den)

\* the last attempt retried like the others
RetryStatus_AlsoOnLast(status, attempt, maxAttempts) == status \in RETRYABLE_STATUS

\* line 137: retry on a transient status, but not on the last attempt
RetryStatus(status, attempt, maxAttempts) ==
    status \in RETRYABLE_STATUS /\ attempt < maxAttempts

\* a back-off after every exception, the one of the last attempt included
RetryError_AlsoOnLast(attempt, maxAttempts) == attempt <= maxAttempts

\* line 146: back off after an exception, but not on the last attempt
RetryError(attempt, maxAttempts) == attempt < maxAttempts

\* line 154: throw lastError ?? new Error(`Failed to fetch ...`)
Exhausted(f) ==
    [f EXCEPT !.pc = "thrown",
              !.result = IF f.lastError.kind = "none"
                         THEN Thrown("Failed to fetch", 0)
                         ELSE f.lastError]

\* the loop body run once before the test (do ... while)
Loop_AtLeastOnce(f) ==
    IF f.attempt <= f.maxAttempts \/ f.attempt = 1
    THEN [f EXCEPT !.pc = "fetching", !.requests = f.requests + 1]
    ELSE Exhausted(f)

\* line 128-130: the loop test, and the request of the attempt when it passes
Loop(f) ==
    IF f.attempt <= f.maxAttempts
    THEN [f EXCEPT !.pc = "fetching", !.requests = f.requests + 1]
    ELSE Exhausted(f)

\* line 119-130: the call, up to its first await
robustFetch(maxAttempts, baseDelay) ==
    Loop([pc |-> "idle", maxAttempts |-> maxAttempts, baseDelay |-> baseDelay,
          attempt |-> 1, requests |-> 0, sleeps |-> 0,
          lastError |-> NoValue, result |-> NoValue])

\* every response before the last attempt retried, whatever its status
OnResponse_AnyStatus(f, status) ==
    IF f.attempt < f.maxAttempts
    THEN [f EXCEPT !.pc = "sleeping", !.sleeps = f.sleeps + 1]
    ELSE [f EXCEPT !.pc = "returned", !.result = Response(status, f.attempt)]

\* the response of the last attempt dropped for an earlier exception
OnResponse_ThrowEarlier(f, status) ==
    IF RetryStatus(status, f.attempt, f.maxAttempts)
    THEN [f EXCEPT !.pc = "sleeping", !.sleeps = f.sleeps + 1]
    ELSE IF status \in RETRYABLE_STATUS /\ f.lastError.kind = "error"
         THEN [f EXCEPT !.pc = "thrown", !.result = f.lastError]
         ELSE [f EXCEPT !.pc = "returned", !.result = Response(status, f.attempt)]

\* line 130-143: the awaited fetch() resolved with a response
OnResponse(f, status) ==
    IF RetryStatus(status, f.attempt, f.maxAttempts)
    THEN [f EXCEPT !.pc = "sleeping", !.sleeps = f.sleeps + 1]
    ELSE [f EXCEPT !.pc = "returned", !.result = Response(status, f.attempt)]

\* the first error kept (lastError ??= err) instead of the last
OnError_KeepFirst(f, err) ==
    LET g == IF f.lastError.kind = "none"
             THEN [f EXCEPT !.lastError = Thrown(err, f.attempt)]
             ELSE f
    IN  IF RetryError(f.attempt, f.maxAttempts)
        THEN [g EXCEPT !.pc = "sleeping", !.sleeps = f.sleeps + 1]
        ELSE Loop([g EXCEPT !.attempt = f.attempt + 1])

\* line 144-152: the awaited fetch() threw
OnError(f, err) ==
    LET g == [f EXCEPT !.lastError = Thrown(err, f.attempt)]
    IN  IF RetryError(f.attempt, f.maxAttempts)
        THEN [g EXCEPT !.pc = "sleeping", !.sleeps = f.sleeps + 1]
        ELSE Loop([g EXCEPT !.attempt = f.attempt + 1])

\* line 140 / 150-151, 128: the timer fired: continue with the next attempt
OnWake(f) == Loop([f EXCEPT !.attempt = f.attempt + 1])

-----------------------------------------------------------------------------
(* Strings: sequences of one-character strings *)

\* String.prototype.endsWith
Chars(s) == [k \in 1 .. Len(s) |-> SubSeq(s, k, k)]

\* String.prototype.endsWith
EndsWith(s, suffix) ==
    /\ Len(suffix) <= Len(s)
    /\ SubSeq(s, Len(s) - Len(suffix) + 1, Len(s)) = suffix

\* String.prototype.startsWith
StartsWith(s, prefix) ==
    /\ Len(prefix) <= Len(s)
    /\ SubSeq(s, 1, Len(prefix)) = prefix

\* String.prototype.includes
Includes(s, sub) ==
    \E k \in 1 .. Len(s) - Len(sub) + 1 : SubSeq(s, k, k + Len(sub) - 1) = sub

\* the position of the first character of s that is in chars, Len(s)+1 if none
FirstOf(s, chars) ==
    IF \E k \in 1 .. Len(s) : s[k] \in chars
    THEN CHOOSE k \in 1 .. Len(s) :
            /\ s[k] \in chars
            /\ \A m \in 1 .. k - 1 : s[m] \notin chars
    ELSE Len(s) + 1

\* String.prototype.split(ch), for a one-character separator
RECURSIVE Split(_, _)
Split(s, ch) ==
    LET k == FirstOf(s, {ch})
    IN  IF k > Len(s)
        THEN <<s>>
        ELSE <<SubSeq(s, 1, k - 1)>> \o Split(SubSeq(s, k + 1, Len(s)), ch)

\* String.prototype.trim (blanks only)
RECURSIVE Trim(_)
Trim(s) ==
    IF s = <<>> THEN s
    ELSE IF Head(s) = " " THEN Trim(Tail(s))
    ELSE IF s[Len(s)] = " " THEN Trim(SubSeq(s, 1, Len(s) - 1))
    ELSE s

\* s.replace(/\./g, '_')
DotsToUnderscores(s) == [k \in 1 .. Len(s) |-> IF s[k] = "." THEN "_" ELSE s[k]]

\* s.replace(/^\//, '')
StripLeadingSlash(s) == IF s # <<>> /\ Head(s) = "/" THEN Tail(s) ELSE s

\* Array.prototype.filter, on a sequence
RECURSIVE SelectNonEmpty(_)
SelectNonEmpty(ss) ==
    IF ss = <<>> THEN <<>>
    ELSE IF Head(ss) = <<>> THEN SelectNonEmpty(Tail(ss))
    ELSE <<Head(ss)>> \o SelectNonEmpty(Tail(ss))

-----------------------------------------------------------------------------
(* Configuration, src/src/config.ts.  An absent variable is the empty string
   (IMAGE_PROXY_HOSTS) or 0 (the numbers: Number(undefined) is NaN, and NaN
   and 0 alike take the default). *)

\* allowedImageHosts(env)
allowedImageHosts(e) ==
    IF e.IMAGE_PROXY_HOSTS # <<>>
    THEN SelectNonEmpty([k \in DOMAIN Split(e.IMAGE_PROXY_HOSTS, ",") |->
                            Trim(Split(e.IMAGE_PROXY_HOSTS, ",")[k])])
    ELSE << <<"q", "p", "i", "c", ".", "c", "n">> >>

\* fetchMaxAttempts(env)
fetchMaxAttempts(e) ==
    IF e.FETCH_MAX_ATTEMPTS # 0 THEN e.FETCH_MAX_ATTEMPTS ELSE 3

\* imageUploadConcurrency(env)
imageUploadConcurrency(e) ==
    IF e.IMAGE_UPLOAD_CONCURRENCY # 0 THEN e.IMAGE_UPLOAD_CONCURRENCY ELSE 5

-----------------------------------------------------------------------------
(* URL helpers, src/src/r2.ts *)

HttpScheme == <<"h", "t", "t", "p", ":", "/", "/">>
HttpsScheme == <<"h", "t", "t", "p", "s", ":", "/", "/">>

\* new URL(s), for http(s) URLs without port, credentials or fragment:
\* ok = FALSE where the constructor throws.  search keeps its leading "?".
URL(s) ==
    LET scheme == IF StartsWith(s, HttpsScheme) THEN HttpsScheme
                  ELSE IF StartsWith(s, HttpScheme) THEN HttpScheme
                  ELSE <<>>
        rest == SubSeq(s, Len(scheme) + 1, Len(s))
        h == FirstOf(rest, {"/", "?"})
        host == SubSeq(rest, 1, h - 1)
        tail == SubSeq(rest, h, Len(rest))
        q == FirstOf(tail, {"?"})
        path == SubSeq(tail, 1, q - 1)
    IN  IF scheme = <<>> \/ host = <<>>
        THEN [ok |-> FALSE, hostname |-> <<>>, pathname |-> <<>>, search |-> <<>>]
        ELSE [ok |-> TRUE,
              hostname |-> host,
              pathname |-> IF path = <<>> THEN <<"/">> ELSE path,
              search |-> SubSeq(tail, q, Len(tail))]

\* url.searchParams.get(name): the value of the first parameter of that name,
\* <<>> when there is none (null) or when it is empty (both falsy)
SearchParam(search, name) ==
    LET params == Split(IF search # <<>> /\ Head(search) = "?" THEN Tail(search) ELSE search,
                        "&")
        named == {k \in DOMAIN params : StartsWith(params[k], name \o <<"=">>)}
    IN  IF named = {} THEN <<>>
        ELSE LET k == CHOOSE k \in named : \A m \in named : k <= m
             IN  SubSeq(params[k], Len(name) + 2, Len(params[k]))

\* MIME_TO_EXT, in insertion order
MIME_TO_EXT ==
    << [hint |-> <<"p", "n", "g">>, ext |-> <<"p", "n", "g">>],
       [hint |-> <<"g", "i", "f">>, ext |-> <<"g", "i", "f">>],
       [hint |-> <<"w", "e", "b", "p">>, ext |-> <<"w", "e", "b", "p">>],
       [hint |-> <<"s", "v", "g">>, ext |-> <<"s", "v", "g">>],
       [hint |-> <<"j", "p", "e", "g">>, ext |-> <<"j", "p", "g">>],
       [hint |-> <<"j", "p", "g">>, ext |-> <<"j", "p", "g">>] >>

\* the extension taken from the path before the wx_fmt parameter is looked at
inferExtension_PathFirst(url) ==
    LET fmt == SearchParam(url.search, <<"w", "x", "_", "f", "m", "t">>)
        table == {k \in DOMAIN MIME_TO_EXT : MIME_TO_EXT[k].hint = fmt}
        hints == {k \in DOMAIN MIME_TO_EXT :
                     Includes(url.pathname, <<"_">> \o MIME_TO_EXT[k].hint)}
    IN  IF hints # {}
        THEN MIME_TO_EXT[CHOOSE k \in hints : \A m \in hints : k <= m].ext
        ELSE IF fmt # <<>>
             THEN IF table # {} THEN MIME_TO_EXT[CHOOSE k \in table : TRUE].ext ELSE fmt
             ELSE <<"j", "p", "g">>

\* inferExtension(url)
inferExtension(url) ==
    LET fmt == SearchParam(url.search, <<"w", "x", "_", "f", "m", "t">>)
        table == {k \in DOMAIN MIME_TO_EXT : MIME_TO_EXT[k].hint = fmt}
        hints == {k \in DOMAIN MIME_TO_EXT :
                     Includes(url.pathname, <<"_">> \o MIME_TO_EXT[k].hint)}
    IN  IF fmt # <<>>
        THEN IF table # {} THEN MIME_TO_EXT[CHOOSE k \in table : TRUE].ext ELSE fmt
        ELSE IF hints # {}
             THEN MIME_TO_EXT[CHOOSE k \in hints : \A m \in hints : k <= m].ext
             ELSE <<"j", "p", "g">>

\* the allow-list not consulted
toR2Key_AnyHost(originalUrl, e) ==
    LET url == URL(originalUrl)
    IN  IF ~url.ok THEN <<>>
        ELSE DotsToUnderscores(url.hostname) \o <<"/">>
                \o StripLeadingSlash(url.pathname) \o <<".">> \o inferExtension(url)

\* a key that changes once the batch has uploaded something
toR2Key_Versioned(originalUrl, e) ==
    LET url == URL(originalUrl)
        hosts == allowedImageHosts(e)
    IN  IF ~url.ok THEN <<>>
        ELSE IF ~\E k \in DOMAIN hosts : EndsWith(url.hostname, hosts[k]) THEN <<>>
        ELSE DotsToUnderscores(url.hostname) \o <<"/">>
                \o StripLeadingSlash(url.pathname)
                \o (IF stats.uploaded > 0 THEN <<"_", "2">> ELSE <<>>)
                \o <<".">> \o inferExtension(url)

\* toR2Key(originalUrl, env): <<>> stands for null
toR2Key(originalUrl, e) ==
    LET url == URL(originalUrl)
        hosts == allowedImageHosts(e)
    IN  IF ~url.ok THEN <<>>
        ELSE IF ~\E k \in DOMAIN hosts : EndsWith(url.hostname, hosts[k]) THEN <<>>
        ELSE DotsToUnderscores(url.hostname) \o <<"/">>
                \o StripLeadingSlash(url.pathname) \o <<".">> \o inferExtension(url)

-----------------------------------------------------------------------------
(* rewriteImageUrls, src/src/r2.ts *)

\* the characters the class [^)\s"'<>\]] of line 127 and 129 excludes
FragmentStop == {")", " ", "\n", "\t", "\r", "\"", "'", "<", ">", "]"}

\* [^)\s"'<>\]]+ at position p of text: the position after the longest run of
\* characters of the class (p itself when there is none)
RunEnd(text, p) ==
    LET stops == {q \in p .. Len(text) : text[q] \in FragmentStop}
    IN  IF stops = {} THEN Len(text) + 1
        ELSE CHOOSE q \in stops : \A r \in stops : q <= r

\* (?:amp[^)\s"'<>\]]+)* at position p of text, greedy: the position after
\* the match
RECURSIVE FragmentsEnd(_, _, _)
FragmentsEnd(text, p, amp) ==
    LET q == p + Len(amp)
    IN  IF /\ q - 1 <= Len(text)
           /\ SubSeq(text, p, q - 1) = amp
           /\ RunEnd(text, q) > q
        THEN FragmentsEnd(text, RunEnd(text, q), amp)
        ELSE p

\* the first position from p on where originalUrl occurs in text, 0 if none
NextMatch(text, p, originalUrl) ==
    LET at == {q \in p .. Len(text) - Len(originalUrl) + 1 :
                  SubSeq(text, q, q + Len(originalUrl) - 1) = originalUrl}
    IN  IF originalUrl = <<>> \/ at = {} THEN 0
        ELSE CHOOSE q \in at : \A r \in at : q <= r

\* replace without the g flag: the first match only
ReplaceAll_First(text, p, originalUrl, amp, replacement) ==
    LET q == NextMatch(text, p, originalUrl)
    IN  IF q = 0 THEN SubSeq(text, p, Len(text))
        ELSE SubSeq(text, p, q - 1) \o replacement
                \o SubSeq(text, FragmentsEnd(text, q + Len(originalUrl), amp), Len(text))

\* line 127, 129: text.replace(new RegExp(`${escaped}(?:amp[^)\s"'<>\]]+)*`, 'g'),
\* replacement), from position p on.  The escaping of line 124 makes the URL
\* match itself, character by character.
RECURSIVE ReplaceAll(_, _, _, _, _)
ReplaceAll(text, p, originalUrl, amp, replacement) ==
    LET q == NextMatch(text, p, originalUrl)
    IN  IF q = 0 THEN SubSeq(text, p, Len(text))
        ELSE SubSeq(text, p, q - 1) \o replacement
                \o ReplaceAll(text, FragmentsEnd(text, q + Len(originalUrl), amp),
                              originalUrl, amp, replacement)

AmpEntity == <<"&", "a", "m", "p", ";">>
AmpLiteral == <<"&">>

\* a URL without a key replaced all the same
RewriteOne_NoKeyCheck(result, originalUrl, r2PublicUrl, e) ==
    LET replacement == r2PublicUrl \o <<"/">> \o toR2Key(originalUrl, e)
        entities == ReplaceAll(result, 1, originalUrl, AmpEntity, replacement)
    IN  ReplaceAll(entities, 1, originalUrl, AmpLiteral, replacement)

\* a replacement that keeps the URL it replaces, as a parameter
RewriteOne_KeepSource(result, originalUrl, r2PublicUrl, e) ==
    LET key == toR2Key(originalUrl, e)
        replacement == r2PublicUrl \o <<"/">> \o key \o <<"?", "s", "r", "c", "=">>
                          \o originalUrl
        entities == ReplaceAll(result, 1, originalUrl, AmpEntity, replacement)
    IN  IF key = <<>> THEN result
        ELSE ReplaceAll(entities, 1, originalUrl, AmpLiteral, replacement)

\* line 120-129: the body of the loop, for one URL of the list
RewriteOne(result, originalUrl, r2PublicUrl, e) ==
    LET key == toR2Key(originalUrl, e)
        replacement == r2PublicUrl \o <<"/">> \o key
        entities == ReplaceAll(result, 1, originalUrl, AmpEntity, replacement)
    IN  IF key = <<>> THEN result
        ELSE ReplaceAll(entities, 1, originalUrl, AmpLiteral, replacement)

\* rewriteImageUrls(markdown, imageUrls, r2PublicUrl, env); the test of line
\* 115 is the loop over no URL
RECURSIVE rewriteImageUrls(_, _, _, _)
rewriteImageUrls(text, urls, r2PublicUrl, e) ==
    IF urls = <<>> THEN text
    ELSE rewriteImageUrls(RewriteOne(text, Head(urls), r2PublicUrl, e), Tail(urls),
                          r2PublicUrl, e)

-----------------------------------------------------------------------------
(* collectImageUrls, src/src/r2.ts, and the text helpers of the handler *)

Whitespace == {" ", "\n", "\t", "\r"}

\* the position of the first character of text from p on that is in stops,
\* Len(text) + 1 if none
RunTo(text, p, stops) ==
    LET at == {q \in p .. Len(text) : text[q] \in stops}
    IN  IF at = {} THEN Len(text) + 1
        ELSE CHOOSE q \in at : \A r \in at : q <= r

\* WECHAT_IMG_RE, line 90: https?:\/\/mmbiz\.q(?:pic|logo)\.cn\/ in lower case
ImagePrefixes ==
    { Chars("http://mmbiz.qpic.cn/"), Chars("https://mmbiz.qpic.cn/"),
      Chars("http://mmbiz.qlogo.cn/"), Chars("https://mmbiz.qlogo.cn/") }

\* [^?\s"'<>)\]] and [^&\s"'<>)\]] of WECHAT_IMG_RE, by what they exclude
PathStop == Whitespace \cup {"?", "\"", "'", "<", ">", ")", "]"}
QueryStop == Whitespace \cup {"&", "\"", "'", "<", ">", ")", "]"}

\* WECHAT_IMG_RE at position p of text: the position after the match, 0 when
\* there is no match at p
MatchAt(text, p) ==
    LET found == {pr \in ImagePrefixes :
                     /\ p + Len(pr) - 1 <= Len(text)
                     /\ SubSeq(text, p, p + Len(pr) - 1) = pr}
        Query(q, end) == IF end > q + 1 THEN end ELSE q
        Path(path, q) ==
            IF q = path THEN 0
            ELSE IF q <= Len(text) /\ text[q] = "?"
                 THEN Query(q, RunTo(text, q + 1, QueryStop))
                 ELSE q
        Prefix(path) == Path(path, RunTo(text, path, PathStop))
    IN  IF found = {} THEN 0
        ELSE Prefix(p + Len(CHOOSE x \in found : TRUE))

\* text.matchAll(WECHAT_IMG_RE), from position p on: the matches, in order
RECURSIVE MatchAll(_, _)
MatchAll(text, p) ==
    LET Match(q, end) == <<SubSeq(text, q, end - 1)>> \o MatchAll(text, end)
        From(q) == Match(q, MatchAt(text, q))
        First(at) == IF at = {} THEN <<>>
                     ELSE From(CHOOSE x \in at : \A r \in at : x <= r)
    IN  First({q \in p .. Len(text) : MatchAt(text, q) # 0})

\* new Set<string>() fed with the elements of ss: each once, in the order of
\* its first insertion
RECURSIVE Unique(_)
Unique(ss) ==
    IF ss = <<>> THEN <<>>
    ELSE LET Add(rest, u) == IF \E k \in DOMAIN rest : rest[k] = u THEN rest
                             ELSE Append(rest, u)
         IN  Add(Unique(SubSeq(ss, 1, Len(ss) - 1)), ss[Len(ss)])

\* u.replace(/[,.)\]]+$/, '')
RECURSIVE StripTrailing(_)
StripTrailing(u) ==
    IF u # <<>> /\ u[Len(u)] \in {",", ".", ")", "]"}
    THEN StripTrailing(SubSeq(u, 1, Len(u) - 1))
    ELSE u

\* collectImageUrls(html, markdown)
collectImageUrls(html, markdown) ==
    LET Strip(matches) == [k \in DOMAIN matches |-> StripTrailing(matches[k])]
    IN  Strip(Unique(MatchAll(html, 1) \o MatchAll(markdown, 1)))

\* isHtmlContent(contentType), src/unnamed/part_000 line 33-35
isHtmlContent(contentType) ==
    \/ Includes(contentType, Chars("text/html"))
    \/ Includes(contentType, Chars("application/xhtml"))

\* preprocessHtml(html), src/src/html.ts line 61-77: the pattern of line 62
\* needs an <img> tag with a data-src attribute.  The markup of the model has
\* none, so that replace finds no match and returns the markup as it is.
preprocessHtml(html) == html

\* markdown.replace(/^---\n[\s\S]*?\n---\n*/, ''), part_000 line 188
StripFrontmatter(markdown) ==
    LET open == <<"-", "-", "-", "\n">>
        close == <<"\n", "-", "-", "-">>
        at == {q \in 5 .. Len(markdown) - 3 : SubSeq(markdown, q, q + 3) = close}
        q == CHOOSE x \in at : \A r \in at : x <= r
        text == {r \in q + 4 .. Len(markdown) : markdown[r] # "\n"}
    IN  IF Len(markdown) >= 4 /\ SubSeq(markdown, 1, 4) = open /\ at # {}
        THEN IF text = {} THEN <<>>
             ELSE SubSeq(markdown, CHOOSE x \in text : \A r \in text : x <= r, Len(markdown))
        ELSE markdown

-----------------------------------------------------------------------------
(* One observed robustFetch call: SpecFetch *)

\* the baseDelay option of the observed call (the default, and a small one)
BaseDelays == {3, DEFAULTS.baseDelay}

\* the maxAttempts option of the observed call; fetchMaxAttempts(env) passes
\* any non-zero number of the configuration, a negative one included
AttemptOptions == -1 .. MaxAttemptsBound

\* the environment with nothing configured: an absent variable is <<>> (the
\* strings), 0 (the numbers) or FALSE (the bucket binding)
NoEnv ==
    [IMAGE_UPLOAD_CONCURRENCY |-> 0, IMAGE_PROXY_HOSTS |-> <<>>, FETCH_MAX_ATTEMPTS |-> 0,
     IMAGE_TTL_HOURS |-> 0,
     R2_PUBLIC_URL |-> <<>>, IMAGES_BUCKET |-> FALSE]

NoInput ==
    [fn |-> "", html |-> <<>>, text |-> <<>>, urls |-> <<>>, base |-> <<>>, hosts |-> <<>>]

NoOutput == [done |-> 0, key |-> <<>>, result |-> <<>>, again |-> <<>>]

\* null and undefined: a value that no string equals (a string has one
\* character per element)
Null == <<"null">>

\* a string that is neither null nor empty
Given(s) == s # Null /\ s # <<>>

NoRequest ==
    [method |-> "", json |-> TRUE, url |-> <<>>, content |-> Null, html |-> Null,
     raw |-> FALSE]

NoDocument == [contentType |-> <<>>, body |-> <<>>]

NoResponse == [status |-> 0, kind |-> "", error |-> "", reason |-> "", markdown |-> <<>>]

NoConversion == [format |-> "", data |-> <<>>, error |-> ""]

PureIdle ==
    /\ input = NoInput
    /\ output = NoOutput

HandlerIdle ==
    /\ hpc = "idle"
    /\ request = NoRequest
    /\ document = NoDocument
    /\ conversion = NoConversion
    /\ response = NoResponse

MirrorIdle ==
    /\ env = NoEnv
    /\ imageUrls = <<>>
    /\ pc = "idle"
    /\ i = 0
    /\ win = {}
    /\ task = <<>>
    /\ stats = [uploaded |-> 0, skipped |-> 0, failed |-> 0]
    /\ bucket = <<>>
    /\ log = <<>>

InitFetch ==
    /\ \E m \in AttemptOptions, b \in BaseDelays :
          rf = [pc |-> "idle", maxAttempts |-> m, baseDelay |-> b,
                attempt |-> 1, requests |-> 0, sleeps |-> 0,
                lastError |-> NoValue, result |-> NoValue]
    /\ trace = <<>>
    /\ delays = <<>>
    /\ MirrorIdle
    /\ PureIdle
    /\ HandlerIdle

\* the durations a step that ends in "sleeping" may hand to setTimeout
SleepOf(f, g) ==
    IF g.pc = "sleeping"
    THEN {sleep(f.baseDelay, f.attempt, j) : j \in 0 .. JitterSteps - 1}
    ELSE {}

RfCall ==
    /\ rf.pc = "idle"
    /\ rf' = robustFetch(rf.maxAttempts, rf.baseDelay)
    /\ UNCHANGED <<trace, delays>>
    /\ UNCHANGED mirrorVars
    /\ UNCHANGED <<pureVars, handlerVars>>

RfResponse ==
    /\ rf.pc = "fetching"
    /\ \E status \in Statuses :
          /\ rf' = OnResponse(rf, status)
          /\ trace' = Append(trace, Response(status, rf.attempt))
          /\ IF SleepOf(rf, rf') = {}
             THEN delays' = delays
             ELSE \E d \in SleepOf(rf, rf') : delays' = Append(delays, d)
    /\ UNCHANGED mirrorVars
    /\ UNCHANGED <<pureVars, handlerVars>>

RfError ==
    /\ rf.pc = "fetching"
    /\ \E err \in NetErrors :
          /\ rf' = OnError(rf, err)
          /\ trace' = Append(trace, Thrown(err, rf.attempt))
          /\ IF SleepOf(rf, rf') = {}
             THEN delays' = delays
             ELSE \E d \in SleepOf(rf, rf') : delays' = Append(delays, d)
    /\ UNCHANGED mirrorVars
    /\ UNCHANGED <<pureVars, handlerVars>>

RfWake ==
    /\ rf.pc = "sleeping"
    /\ rf' = OnWake(rf)
    /\ UNCHANGED <<trace, delays>>
    /\ UNCHANGED mirrorVars
    /\ UNCHANGED <<pureVars, handlerVars>>

NextFetch == RfCall \/ RfResponse \/ RfError \/ RfWake

SpecFetch == InitFetch /\ [][NextFetch]_vars

-----------------------------------------------------------------------------
(* uploadImages, src/src/r2.ts *)

\* a task's robustFetch call before it is made
NoCall ==
    [pc |-> "idle", maxAttempts |-> 0, baseDelay |-> 0, attempt |-> 0, requests |-> 0,
     sleeps |-> 0, lastError |-> NoValue, result |-> NoValue]

\* the async callback of batch.map for one URL, before it runs
\* (key, dl, res: its locals, res being dropped when the task settles; head,
\* download, puts, threw, counted: what it has done so far)
NewTask ==
    [pc |-> "new", key |-> <<>>, dl |-> NoCall, res |-> NoValue,
     head |-> "none", download |-> "none", puts |-> 0, threw |-> "", counted |-> <<>>]

\* slice(start): the end of the window forgotten
Slice_NoEnd(len, start, end) ==
    (IF start < 0 THEN (IF len + start < 0 THEN 0 ELSE len + start)
     ELSE (IF start > len THEN len ELSE start)) + 1 .. len

\* Array.prototype.slice(start, end) on an array of length len, as the set of
\* the (1-based) positions it selects
Slice(len, start, end) ==
    LET rel(x) == IF x < 0 THEN (IF len + x < 0 THEN 0 ELSE len + x)
                  ELSE (IF x > len THEN len ELSE x)
    IN  rel(start) + 1 .. rel(end)

\* Promise.race: over as soon as one task of the window has settled
allSettled_Race(tasks, w) ==
    IF w = {} \/ \E k \in w : tasks[k].pc \in {"fulfilled", "rejected"}
    THEN "fulfilled"
    ELSE "pending"

\* Promise.all: rejects as soon as one task of the window has rejected
allSettled_All(tasks, w) ==
    IF \E k \in w : tasks[k].pc = "rejected" THEN "rejected"
    ELSE IF \A k \in w : tasks[k].pc = "fulfilled" THEN "fulfilled"
    ELSE "pending"

\* line 171: what `await Promise.allSettled(tasks of w)` does in this state
allSettled(tasks, w) ==
    IF \A k \in w : tasks[k].pc \in {"fulfilled", "rejected"}
    THEN "fulfilled"
    ELSE "pending"

\* the download started at once, without the existence check
Started_NoHead(url, e) ==
    LET key == toR2Key(url, e)
    IN  IF key = <<>>
        THEN [NewTask EXCEPT !.pc = "fulfilled", !.counted = <<"skipped">>]
        ELSE [NewTask EXCEPT !.pc = "download", !.key = key, !.download = "called",
                             !.dl = robustFetch(2, DEFAULTS.baseDelay)]

\* line 172-180: the callback of one URL up to its first await: the key, and
\* either the skip or the bucket.head request
Started(url, e) ==
    LET key == toR2Key(url, e)
    IN  IF key = <<>>
        THEN [NewTask EXCEPT !.pc = "fulfilled", !.counted = <<"skipped">>]
        ELSE [NewTask EXCEPT !.pc = "head", !.key = key]

\* the number of entries `name` in the counted fields of the tasks of w
Counted(tasks, w, name) ==
    Cardinality({k \in w : Len(tasks[k].counted) >= 1 /\ tasks[k].counted[1] = name})
    + Cardinality({k \in w : Len(tasks[k].counted) >= 2 /\ tasks[k].counted[2] = name})

\* the magnitude at which the loop index stops changing: i is a double, and
\* below -2^53 adding a small negative number to it gives i again
IndexFloor == 4

\* line 168: i += concurrency
Advance(at, c) == IF at + c < -IndexFloor THEN -IndexFloor ELSE at + c

\* line 168-172: the loop test at i and, when it passes, the slice and the map
\* over it; otherwise line 228-229, the return
Window(urls, e, tasks, st, at) ==
    IF at < Len(urls)
    THEN LET w == Slice(Len(urls), at, at + imageUploadConcurrency(e))
             started == [k \in DOMAIN tasks |->
                            IF k \in w THEN Started(urls[k], e) ELSE tasks[k]]
         IN  [pc |-> "running", i |-> at, win |-> w, task |-> started,
              stats |-> [st EXCEPT !.skipped = st.skipped + Counted(started, w, "skipped")]]
    ELSE [pc |-> "returned", i |-> at, win |-> {}, task |-> tasks, stats |-> st]

\* line 220-225: the loop over the results of the window
Results(tasks, w) ==
    [k \in DOMAIN tasks |->
        IF k \in w /\ tasks[k].pc = "rejected"
        THEN [tasks[k] EXCEPT !.counted = Append(tasks[k].counted, "failed")]
        ELSE tasks[k]]

\* the loop over the results left out
Rejected_None(tasks, w) == {}

\* line 221: the results of the window with status 'rejected'
Rejected(tasks, w) == {k \in w : tasks[k].pc = "rejected"}

\* the result of the existence check ignored
AfterHead_NoSkip(t, exists) ==
    [t EXCEPT !.pc = "download", !.head = IF exists THEN "hit" ELSE "miss",
              !.download = "called", !.dl = robustFetch(2, DEFAULTS.baseDelay)]

\* line 180-191: bucket.head(key) resolved
AfterHead(t, exists) ==
    IF exists
    THEN [t EXCEPT !.pc = "fulfilled", !.head = "hit", !.counted = Append(t.counted, "skipped")]
    ELSE [t EXCEPT !.pc = "download", !.head = "miss", !.download = "called",
                   !.dl = robustFetch(2, DEFAULTS.baseDelay)]

\* the test of res.ok left out
AfterFetch_NoOkTest(t, f) ==
    IF f.pc = "returned"
    THEN [t EXCEPT !.pc = "body", !.dl = NoCall,
                   !.download = IF Ok(f.result.status) THEN "ok" ELSE "notok",
                   !.res = Response(f.result.status, 0)]
    ELSE IF f.pc = "thrown"
         THEN [t EXCEPT !.pc = "rejected", !.dl = NoCall, !.download = "threw",
                        !.threw = "download"]
         ELSE [t EXCEPT !.dl = f]

\* line 186-200: a step of the task's robustFetch call; when that call returns,
\* res and the test of res.ok, and when it throws, the rejection of the task
AfterFetch(t, f) ==
    IF f.pc = "returned"
    THEN IF ~Ok(f.result.status)
         THEN [t EXCEPT !.pc = "fulfilled", !.dl = NoCall, !.download = "notok",
                        !.counted = Append(t.counted, "failed")]
         ELSE [t EXCEPT !.pc = "body", !.dl = NoCall, !.download = "ok",
                        !.res = Response(f.result.status, 0)]
    ELSE IF f.pc = "thrown"
         THEN [t EXCEPT !.pc = "rejected", !.dl = NoCall, !.download = "threw",
                        !.threw = "download"]
         ELSE [t EXCEPT !.dl = f]

\* line 202-215: bucket.put resolved
AfterPut(t) ==
    [t EXCEPT !.pc = "fulfilled", !.res = NoValue, !.puts = t.puts + 1,
              !.counted = Append(t.counted, "uploaded")]

\* imageTtlMs(env), src/src/config.ts line 27-30
imageTtlMs(e) == (IF e.IMAGE_TTL_HOURS # 0 THEN e.IMAGE_TTL_HOURS ELSE 8) * 60 * 60 * 1000

\* imageCacheMaxAge(env), src/src/config.ts line 38-41: the max-age, in seconds
imageCacheMaxAge(e) == (IF e.IMAGE_TTL_HOURS # 0 THEN e.IMAGE_TTL_HOURS ELSE 8) * 60 * 60

\* extFromContentType(ct), line 140-145: the extension of the first entry of
\* MIME_TO_EXT whose fragment occurs in ct
extFromContentType(ct) ==
    LET found == {k \in DOMAIN MIME_TO_EXT : Includes(ct, MIME_TO_EXT[k].hint)}
    IN  IF found = {} THEN Chars("jpg")
        ELSE MIME_TO_EXT[CHOOSE k \in found : \A m \in found : k <= m].ext

\* the Content-Type header of the image server's response to url (read at
\* line 199; a response without the header counts as image/jpeg).  The server
\* of the model converts what it serves to JPEG unless the path names a
\* format; a wx_fmt parameter does not bind it.
Served(url) ==
    IF Includes(URL(url).pathname, <<"_", "g", "i", "f">>) THEN Chars("image/gif")
    ELSE IF Includes(URL(url).pathname, <<".", "p", "n", "g">>) THEN Chars("image/png")
    ELSE Chars("image/jpeg")

\* expiresAt is kept as its distance from Date.now() of line 208, in
\* milliseconds
\* the object bucket.put writes (line 202-212)
Object(url, ct, e) ==
    [httpMetadata |-> [contentType |-> ct, cacheControl |-> imageCacheMaxAge(e)],
     customMetadata |-> [expiresAt |-> imageTtlMs(e), originalUrl |-> url,
                         extension |-> extFromContentType(ct)]]

\* the bucket emptied by a write
Put_Only(b, key, obj) == [k \in {key} |-> obj]

Put(b, key, obj) == [k \in DOMAIN b \cup {key} |-> IF k = key THEN obj ELSE b[k]]

-----------------------------------------------------------------------------
(* One uploadImages batch against the bucket: SpecMirror *)

UrlA == <<"h", "t", "t", "p", "s", ":", "/", "/", "m", "m", "b", "i", "z", ".", "q", "p", "i", "c", ".", "c", "n", "/", "a", "?", "w", "x", "_", "f", "m", "t", "=", "p", "n", "g">>
UrlA2 == <<"h", "t", "t", "p", ":", "/", "/", "m", "m", "b", "i", "z", ".", "q", "p", "i", "c", ".", "c", "n", "/", "a", "?", "w", "x", "_", "f", "m", "t", "=", "p", "n", "g">>
UrlB == <<"h", "t", "t", "p", "s", ":", "/", "/", "m", "m", "b", "i", "z", ".", "q", "p", "i", "c", ".", "c", "n", "/", "b", "_", "g", "i", "f">>
UrlX == <<"h", "t", "t", "p", "s", ":", "/", "/", "e", "x", "a", "m", "p", "l", "e", ".", "c", "o", "m", "/", "x", ".", "p", "n", "g">>

\* the URLs a batch is made of: two of one key, and one of a host outside the
\* allow-list
UrlPool == {UrlA, UrlA2, UrlX}

\* what the image host answers a download with, and how a download fails
DownloadStatuses == {200, 404, 503}
DownloadErrors == {"network"}

RECURSIVE Lists(_, _)
Lists(S, n) ==
    IF n = 0 THEN {<<>>}
    ELSE LET shorter == Lists(S, n - 1)
         IN  shorter \cup {Append(l, x) : l \in {m \in shorter : Len(m) = n - 1}, x \in S}

\* the values IMAGE_UPLOAD_CONCURRENCY takes: absent (0), 1 and 2
ConcurrencySettings == {0, 1, 2}

\* what earlier requests left in the bucket: the object of UrlB, and with it
\* or not the object of UrlA
InitialBuckets ==
    LET e == NoEnv
        b == Put(<<>>, toR2Key(UrlB, e), Object(UrlB, Served(UrlB), e))
    IN  {b, Put(b, toR2Key(UrlA, e), Object(UrlA, Served(UrlA), e))}

FetchIdle ==
    /\ rf = NoCall
    /\ trace = <<>>
    /\ delays = <<>>

InitMirror ==
    /\ FetchIdle
    /\ \E c \in ConcurrencySettings :
          env = [NoEnv EXCEPT !.IMAGE_UPLOAD_CONCURRENCY = c, !.IMAGES_BUCKET = TRUE]
    /\ imageUrls \in Lists(UrlPool, MaxUrls)
    /\ pc = "idle"
    /\ i = 0
    /\ win = {}
    /\ task = [k \in 1 .. Len(imageUrls) |-> NewTask]
    /\ stats = [uploaded |-> 0, skipped |-> 0, failed |-> 0]
    /\ bucket \in InitialBuckets
    /\ log = {}
    /\ PureIdle
    /\ HandlerIdle

Enter(w) ==
    /\ pc' = w.pc
    /\ i' = w.i
    /\ win' = w.win
    /\ task' = w.task
    /\ stats' = w.stats

\* line 155-172: the call of uploadImages, up to its first await
Upload ==
    /\ pc = "idle"
    /\ IF Len(imageUrls) = 0
       THEN /\ pc' = "returned"
            /\ UNCHANGED <<i, win, task, stats>>
       ELSE Enter(Window(imageUrls, env, task, stats, 0))
    /\ UNCHANGED <<env, imageUrls, bucket, log>>
    /\ UNCHANGED fetchVars
    /\ UNCHANGED <<pureVars, handlerVars>>

\* line 171, 220-226, 168-172: the await of the window is over: the results
\* are counted, i advances and the next window starts, or the batch returns
NextWindow ==
    /\ pc = "running"
    /\ allSettled(task, win) # "pending"
    /\ IF allSettled(task, win) = "rejected"
       THEN /\ pc' = "rejected"
            /\ UNCHANGED <<i, win, task, stats>>
       ELSE Enter(Window(imageUrls, env, Results(task, win),
                         [stats EXCEPT !.failed = stats.failed
                                                    + Cardinality(Rejected(task, win))],
                         Advance(i, imageUploadConcurrency(env))))
    /\ UNCHANGED <<env, imageUrls, bucket, log>>
    /\ UNCHANGED fetchVars
    /\ UNCHANGED <<pureVars, handlerVars>>

Bump(st, t, u) ==
    IF Len(u.counted) > Len(t.counted)
    THEN LET name == u.counted[Len(u.counted)]
         IN  [st EXCEPT ![name] = st[name] + 1]
    ELSE st

\* the task of position k takes the step that leaves it as u
Step(k, u) ==
    /\ task' = [task EXCEPT ![k] = u]
    /\ stats' = Bump(stats, task[k], u)
    /\ UNCHANGED <<env, imageUrls, pc, i, win>>
    /\ UNCHANGED fetchVars
    /\ UNCHANGED <<pureVars, handlerVars>>

\* line 180: bucket.head(key) resolves, with the object or with null
Head_(k) ==
    /\ task[k].pc = "head"
    /\ Step(k, AfterHead(task[k], task[k].key \in DOMAIN bucket))
    /\ UNCHANGED <<bucket, log>>

\* line 180: bucket.head(key) rejects
HeadThrows(k) ==
    /\ task[k].pc = "head"
    /\ Step(k, [task[k] EXCEPT !.pc = "rejected", !.head = "throw", !.threw = "head"])
    /\ UNCHANGED <<bucket, log>>

\* line 186: the download's request is answered
DownloadResponse(k) ==
    /\ task[k].pc = "download"
    /\ task[k].dl.pc = "fetching"
    /\ \E status \in DownloadStatuses : Step(k, AfterFetch(task[k], OnResponse(task[k].dl, status)))
    /\ UNCHANGED <<bucket, log>>

\* line 186: the download's request fails or times out
DownloadError(k) ==
    /\ task[k].pc = "download"
    /\ task[k].dl.pc = "fetching"
    /\ \E err \in DownloadErrors : Step(k, AfterFetch(task[k], OnError(task[k].dl, err)))
    /\ UNCHANGED <<bucket, log>>

\* line 186: the download's back-off timer fires
DownloadWake(k) ==
    /\ task[k].pc = "download"
    /\ task[k].dl.pc = "sleeping"
    /\ Step(k, AfterFetch(task[k], OnWake(task[k].dl)))
    /\ UNCHANGED <<bucket, log>>

\* line 200-202: res.arrayBuffer() resolves and bucket.put is called
Body(k) ==
    /\ task[k].pc = "body"
    /\ Step(k, [task[k] EXCEPT !.pc = "put"])
    /\ UNCHANGED <<bucket, log>>

\* line 200: res.arrayBuffer() rejects
BodyThrows(k) ==
    /\ task[k].pc = "body"
    /\ Step(k, [task[k] EXCEPT !.pc = "rejected", !.res = NoValue, !.threw = "body"])
    /\ UNCHANGED <<bucket, log>>

\* line 199-215: bucket.put resolves: the object is written, with the
\* Content-Type header of res
PutDone(k) ==
    /\ task[k].pc = "put"
    /\ bucket' = Put(bucket, task[k].key, Object(imageUrls[k], Served(imageUrls[k]), env))
    /\ log' = log \cup {[key |-> task[k].key, by |-> k,
                         over |-> task[k].key \in DOMAIN bucket]}
    /\ Step(k, AfterPut(task[k]))

\* line 202: bucket.put rejects: nothing is written
PutThrows(k) ==
    /\ task[k].pc = "put"
    /\ Step(k, [task[k] EXCEPT !.pc = "rejected", !.res = NoValue, !.threw = "put"])
    /\ UNCHANGED <<bucket, log>>

NextMirror ==
    \/ Upload
    \/ NextWindow
    \/ \E k \in 1 .. Len(imageUrls) : Head_(k)
    \/ \E k \in 1 .. Len(imageUrls) : HeadThrows(k)
    \/ \E k \in 1 .. Len(imageUrls) : DownloadResponse(k)
    \/ \E k \in 1 .. Len(imageUrls) : DownloadError(k)
    \/ \E k \in 1 .. Len(imageUrls) : DownloadWake(k)
    \/ \E k \in 1 .. Len(imageUrls) : Body(k)
    \/ \E k \in 1 .. Len(imageUrls) : BodyThrows(k)
    \/ \E k \in 1 .. Len(imageUrls) : PutDone(k)
    \/ \E k \in 1 .. Len(imageUrls) : PutThrows(k)

SpecMirror == InitMirror /\ [][NextMirror]_vars

-----------------------------------------------------------------------------
(* Batches over hosts inside and outside the allow-list, with the allow-list
   of the configuration varying: SpecItems *)

\* a string new URL() rejects: no scheme
UrlBad == Chars("mmbiz.qpic.cn/a?wx_fmt=png")

ItemPool == {UrlA, UrlX, UrlBad}

\* the values IMAGE_PROXY_HOSTS takes: absent, a list of one other suffix, and
\* a list of two
HostSettings == {<<>>, Chars("example.com"), Chars("qpic.cn, example.com")}

\* the values IMAGE_UPLOAD_CONCURRENCY takes here: absent (0) and 1
ItemConcurrency == {0, 1}

InitItems ==
    /\ FetchIdle
    /\ \E c \in ItemConcurrency, h \in HostSettings :
          env = [NoEnv EXCEPT !.IMAGE_UPLOAD_CONCURRENCY = c, !.IMAGE_PROXY_HOSTS = h,
                              !.IMAGES_BUCKET = TRUE]
    /\ imageUrls \in Lists(ItemPool, MaxItems)
    /\ pc = "idle"
    /\ i = 0
    /\ win = {}
    /\ task = [k \in 1 .. Len(imageUrls) |-> NewTask]
    /\ stats = [uploaded |-> 0, skipped |-> 0, failed |-> 0]
    /\ bucket \in InitialBuckets
    /\ log = {}
    /\ PureIdle
    /\ HandlerIdle

SpecItems == InitItems /\ [][NextMirror]_vars

-----------------------------------------------------------------------------
(* Batches under every sign of the concurrency setting, each enabled step
   eventually taken: SpecBatch *)

\* the values IMAGE_UPLOAD_CONCURRENCY takes here: negative, absent (0, the
\* default 5), and positive
BatchConcurrency == {-2, -1, 0, 1, 2}

InitBatch ==
    /\ FetchIdle
    /\ \E c \in BatchConcurrency :
          env = [NoEnv EXCEPT !.IMAGE_UPLOAD_CONCURRENCY = c, !.IMAGES_BUCKET = TRUE]
    /\ imageUrls \in Lists({UrlA, UrlA2}, MaxItems)
    /\ pc = "idle"
    /\ i = 0
    /\ win = {}
    /\ task = [k \in 1 .. Len(imageUrls) |-> NewTask]
    /\ stats = [uploaded |-> 0, skipped |-> 0, failed |-> 0]
    /\ bucket \in InitialBuckets
    /\ log = {}
    /\ PureIdle
    /\ HandlerIdle

\* a step of one of the tasks: a head, a download, a body or a put settles
TaskStep ==
    \E k \in 1 .. Len(imageUrls) :
        \/ Head_(k) \/ HeadThrows(k)
        \/ DownloadResponse(k) \/ DownloadError(k) \/ DownloadWake(k)
        \/ Body(k) \/ BodyThrows(k)
        \/ PutDone(k) \/ PutThrows(k)

\* ENABLED <<NextWindow>>_vars written out: the await of line 171 is over, and
\* the step changes i (when it does not, the window is empty and stays so, no
\* task and no counter changes, and the loop test passes again)
WindowReady ==
    /\ pc = "running"
    /\ allSettled(task, win) = "fulfilled"
    /\ Advance(i, imageUploadConcurrency(env)) # i

\* every head, download and put settles (weak fairness of the tasks' steps),
\* and the event loop runs the continuation of uploadImages when it is ready:
\* weak fairness of Upload and of NextWindow, their enabling conditions
\* written out (pc = "idle" enables Upload, which always leaves "idle")
SpecBatch ==
    /\ InitBatch
    /\ [][NextMirror]_vars
    /\ WF_vars(TaskStep)
    /\ ([]<>~(pc = "idle") \/ []<><<Upload>>_vars)
    /\ ([]<>~WindowReady \/ []<><<NextWindow>>_vars)

-----------------------------------------------------------------------------
(* toR2Key and rewriteImageUrls applied to given arguments: SpecPure *)

\* the URLs toR2Key is applied to
KeyPool ==
    { Chars("https://mmbiz.qpic.cn/sz_mmbiz_png/abc/640?wx_fmt=png"),
      Chars("https://mmbiz.qpic.cn/mmbiz_gif/abc/640?wx_fmt=jpeg"),
      Chars("https://mmbiz.qpic.cn/mmbiz_gif/abc/0"),
      Chars("https://mmbiz.qpic.cn/mmbiz/abc/0"),
      Chars("http://mmbiz.qpic.cn/mmbiz_jpg/a_png/0?tp=webp"),
      Chars("https://mmbiz.qpic.cn/mmbiz_webp/x/0?tp=webp&wx_fmt=gif"),
      Chars("https://mmbiz.qpic.cn/mmbiz/x/0?wx_fmt=bmp"),
      Chars("https://wx.qlogo.cn/mmhead/abc/132"),
      Chars("https://mmbiz.qpic.cn/") }

\* the values IMAGE_PROXY_HOSTS takes: absent, and two suffixes
KeyHostSettings == {<<>>, Chars("qpic.cn,qlogo.cn")}

\* the URLs of the lists handed to rewriteImageUrls: an image with its format
\* parameter, the same image without it, and an avatar of a host outside the
\* default allow-list
UrlLong == Chars("https://mmbiz.qpic.cn/img/1?wx_fmt=png")
UrlShort == Chars("https://mmbiz.qpic.cn/img/1")
UrlLogo == Chars("https://mmbiz.qlogo.cn/l/0")

ListedPool == {UrlLong, UrlShort, UrlLogo}

\* the longest list handed to rewriteImageUrls
MaxListed == 2

\* the converted texts
Texts ==
    { Chars("![x](https://mmbiz.qpic.cn/img/1?wx_fmt=png&amp;tp=1)"),
      Chars("![x](https://mmbiz.qpic.cn/img/1?wx_fmt=png&tp=1)"),
      Chars("![x](https://mmbiz.qpic.cn/img/1?wx_fmt=png) ![y](https://mmbiz.qpic.cn/img/1?wx_fmt=png&amp;tp=1&amp;f=2)"),
      Chars("![l](https://mmbiz.qlogo.cn/l/0) ![x](https://mmbiz.qpic.cn/img/1?wx_fmt=png)"),
      Chars("no image") }

\* the values R2_PUBLIC_URL takes: a host of its own, and an address under
\* the image host
PublicUrls == {Chars("https://cdn.example/pub"), Chars("https://mmbiz.qpic.cn/img/1")}

\* the configuration the arguments stand for
InputEnv == [NoEnv EXCEPT !.IMAGE_PROXY_HOSTS = input.hosts, !.R2_PUBLIC_URL = input.base]

InitPure ==
    /\ FetchIdle
    /\ MirrorIdle
    /\ HandlerIdle
    /\ \/ \E u \in KeyPool, h \in KeyHostSettings :
             input = [NoInput EXCEPT !.fn = "toR2Key", !.urls = <<u>>, !.hosts = h]
       \/ \E t \in Texts, l \in Lists(ListedPool, MaxListed), b \in PublicUrls :
             input = [NoInput EXCEPT !.fn = "rewriteImageUrls", !.text = t, !.urls = l,
                                     !.base = b]
    /\ output = NoOutput

\* toR2Key(originalUrl, env) is evaluated
DeriveKey ==
    /\ input.fn = "toR2Key"
    /\ output.done = 0
    /\ output' = [output EXCEPT !.done = 1, !.key = toR2Key(input.urls[1], InputEnv)]
    /\ UNCHANGED <<input, fetchVars, mirrorVars, handlerVars>>

\* rewriteImageUrls(markdown, imageUrls, r2PublicUrl, env) is evaluated
Rewrite ==
    /\ input.fn = "rewriteImageUrls"
    /\ output.done = 0
    /\ output' = [output EXCEPT
                     !.done = 1,
                     !.result = rewriteImageUrls(input.text, input.urls, input.base, InputEnv)]
    /\ UNCHANGED <<input, fetchVars, mirrorVars, handlerVars>>

\* rewriteImageUrls is evaluated on its own result, with the same arguments
RewriteAgain ==
    /\ input.fn = "rewriteImageUrls"
    /\ output.done = 1
    /\ output' = [output EXCEPT
                     !.done = 2,
                     !.again = rewriteImageUrls(output.result, input.urls, input.base,
                                                InputEnv)]
    /\ UNCHANGED <<input, fetchVars, mirrorVars, handlerVars>>

NextPure == DeriveKey \/ Rewrite \/ RewriteAgain

SpecPure == InitPure /\ [][NextPure]_vars

-----------------------------------------------------------------------------
(* toR2Key applied to two URLs under one allow-list: SpecKeys *)

\* URLs that agree or differ in scheme, host, path and format hint
PairPool ==
    { UrlA, UrlA2,
      Chars("https://mmbiz.qpic.cn/a?wx_fmt=jpeg"),
      Chars("https://mmbiz.qpic.cn/a"),
      Chars("https://a.b.qpic.cn/x"),
      Chars("https://a_b.qpic.cn/x"),
      Chars("https://mmbiz.qpic.cn/a.b?wx_fmt=c"),
      Chars("https://mmbiz.qpic.cn/a?wx_fmt=b.c"),
      Chars("https://mmbiz.qlogo.cn/a") }

InitKeys ==
    /\ FetchIdle
    /\ MirrorIdle
    /\ HandlerIdle
    /\ \E u \in PairPool, v \in PairPool, h \in KeyHostSettings :
          input = [NoInput EXCEPT !.fn = "toR2Key", !.urls = <<u, v>>, !.hosts = h]
    /\ output = NoOutput

\* toR2Key(originalUrl, env) is evaluated for the second URL
DeriveOther ==
    /\ input.fn = "toR2Key"
    /\ Len(input.urls) = 2
    /\ output.done = 1
    /\ output' = [output EXCEPT !.done = 2, !.again = toR2Key(input.urls[2], InputEnv)]
    /\ UNCHANGED <<input, fetchVars, mirrorVars, handlerVars>>

NextKeys == DeriveKey \/ DeriveOther

SpecKeys == InitKeys /\ [][NextKeys]_vars

-----------------------------------------------------------------------------
(* collectImageUrls applied to a raw markup and a converted text, under each
   setting of the allow-list: SpecExtract *)

\* media URLs of hosts inside and outside WECHAT_IMG_RE
UrlAvatar == Chars("https://wx.qlogo.cn/mmhead/abc/132")
UrlOther == Chars("https://img.example.com/a.png")

\* the raw markups
Markups ==
    { <<>>,
      Chars("<img src=\"https://mmbiz.qpic.cn/img/1?wx_fmt=png&amp;tp=1\">"),
      Chars("<img src=\"https://mmbiz.qlogo.cn/l/0\"> <img src=\"https://wx.qlogo.cn/mmhead/abc/132\">"),
      Chars("<a href=\"https://mmbiz.qpic.cn/img/1\">https://mmbiz.qpic.cn/img/1.</a>") }

\* the converted texts
Converts ==
    { Chars("no image"),
      Chars("![x](https://mmbiz.qpic.cn/img/1?wx_fmt=png&amp;tp=1)"),
      Chars("![l](https://mmbiz.qlogo.cn/l/0) ![o](https://img.example.com/a.png)"),
      Chars("see https://mmbiz.qpic.cn/img/1, or https://mmbiz.qpic.cn/img/1"),
      Chars("![x](https://mmbiz.qpic.cn/img/1?wx_fmt=png) ![x](https://mmbiz.qpic.cn/img/1?wx_fmt=png)") }

\* the values IMAGE_PROXY_HOSTS takes: absent, and two lists
ExtractHostSettings == {<<>>, Chars("example.com"), Chars("qpic.cn, qlogo.cn")}

InitExtract ==
    /\ FetchIdle
    /\ MirrorIdle
    /\ HandlerIdle
    /\ \E h \in Markups, t \in Converts, a \in ExtractHostSettings :
          input = [NoInput EXCEPT !.fn = "collectImageUrls", !.html = h, !.text = t,
                                  !.hosts = a]
    /\ output = NoOutput

\* collectImageUrls(html, markdown) is evaluated
Extract ==
    /\ input.fn = "collectImageUrls"
    /\ output.done = 0
    /\ output' = [output EXCEPT !.done = 1,
                                !.result = collectImageUrls(input.html, input.text)]
    /\ UNCHANGED <<input, fetchVars, mirrorVars, handlerVars>>

NextExtract == Extract

SpecExtract == InitExtract /\ [][NextExtract]_vars

-----------------------------------------------------------------------------
(* The request handler, src/unnamed/part_000, with the batch it schedules:
   SpecHandler.  isWeChatArticle and extractWeChatContent are not among the
   sources; the markup of the model is taken not to be a WeChat article page,
   so that line 122 and 159 leave it as it is.  The file name and the title
   reach the conversion service only and are left out. *)

ErrorResponse(status, error) ==
    [NoResponse EXCEPT !.status = status, !.kind = "error", !.error = error]

\* line 203-214: textResponse for format=raw, the JSON envelope otherwise
SuccessResponse(req, markdown) ==
    [NoResponse EXCEPT !.status = 200, !.kind = IF req.raw THEN "text" ELSE "json",
                       !.markdown = markdown]

\* the handler between two awaits: where it stands, the robustFetch call it
\* made, the response it returned
Running(at, f) == [hpc |-> at, rf |-> f, response |-> NoResponse]
Returned(r) == [hpc |-> "done", rf |-> NoCall, response |-> r]

\* line 46, 68: directContent = body.content ?? body.html ?? null, of a POST
directContent(req) ==
    IF req.method # "POST" THEN Null
    ELSE IF req.content # Null THEN req.content
    ELSE req.html

\* line 40-169: from the request to the first call the handler awaits
Received(req, e) ==
    IF req.method = "OPTIONS" THEN Returned([NoResponse EXCEPT !.status = 204, !.kind = "preflight"])
    ELSE IF req.method \notin {"GET", "POST"}
    THEN Returned(ErrorResponse(405, "Method not allowed. Use GET or POST."))
    ELSE IF req.method = "POST" /\ ~req.json
    THEN Returned(ErrorResponse(400, "Invalid JSON body."))
    ELSE IF req.url = <<>> /\ ~Given(directContent(req))
    THEN Returned([NoResponse EXCEPT !.status = 200, !.kind = "usage"])
    ELSE IF req.url # <<>> /\ ~URL(req.url).ok
    THEN Returned(ErrorResponse(400, "Invalid URL provided."))
    ELSE IF Given(directContent(req))
    THEN Running("convert", NoCall)
    ELSE Running("fetch", robustFetch(fetchMaxAttempts(e), DEFAULTS.baseDelay))

\* the test of response.ok left out
AfterDocument_NoOkTest(f) ==
    IF f.pc = "thrown" THEN Returned(ErrorResponse(500, "Internal error"))
    ELSE Running("body", f)

\* line 136-146: the robustFetch call of the handler has settled
AfterDocument(f) ==
    IF f.pc = "thrown" THEN Returned(ErrorResponse(500, "Internal error"))
    ELSE IF ~Ok(f.result.status) THEN Returned(ErrorResponse(502, "Failed to fetch URL"))
    ELSE Running("body", f)

\* the type and the bytes handed to the conversion service (line 109, 127-131
\* for direct content, line 145-165 for a fetched document)
ContentTypeOf(req, doc) ==
    IF Given(directContent(req)) THEN Chars("text/html") ELSE doc.contentType

BodyOf(req, doc) ==
    LET raw == IF Given(directContent(req)) THEN directContent(req) ELSE doc.body
    IN  IF isHtmlContent(ContentTypeOf(req, doc)) THEN preprocessHtml(raw) ELSE raw

\* links rewritten only for the keys the bucket already holds
Mirrored_IfStored(markdown, urls, e) ==
    rewriteImageUrls(markdown,
                     SelectSeq(urls, LAMBDA u : toR2Key(u, e) \in DOMAIN bucket),
                     e.R2_PUBLIC_URL, e)

\* line 196
Mirrored(markdown, urls, e) == rewriteImageUrls(markdown, urls, e.R2_PUBLIC_URL, e)

\* the test of env.IMAGES_BUCKET && env.R2_PUBLIC_URL left out
Proxied_NoConfigTest(req, doc, data, e) ==
    LET Rewrite_(markdown, urls) ==
            [urls |-> urls,
             markdown |-> IF urls # <<>> THEN Mirrored(markdown, urls, e) ELSE markdown]
        Collect(markdown, rawHtmlForImages) ==
            Rewrite_(markdown, collectImageUrls(rawHtmlForImages, markdown))
    IN  Collect(StripFrontmatter(data),
                IF isHtmlContent(ContentTypeOf(req, doc)) THEN BodyOf(req, doc) ELSE <<>>)

\* line 185-200: the text of the response and the URLs of the batch to schedule
Proxied(req, doc, data, e) ==
    LET Rewrite_(markdown, urls) ==
            [urls |-> urls,
             markdown |-> IF urls # <<>> THEN Mirrored(markdown, urls, e) ELSE markdown]
        Collect(markdown, rawHtmlForImages) ==
            Rewrite_(markdown, IF e.IMAGES_BUCKET /\ e.R2_PUBLIC_URL # <<>>
                               THEN collectImageUrls(rawHtmlForImages, markdown)
                               ELSE <<>>)
    IN  Collect(StripFrontmatter(data),
                IF isHtmlContent(ContentTypeOf(req, doc)) THEN BodyOf(req, doc) ELSE <<>>)

\* toMarkdown called again after a failure
Failed_Retry(c) == Running("convert", NoCall)

\* line 181-183: the service reported a failure: 422 with its reason
Failed(c) == Returned([ErrorResponse(422, "Conversion failed") EXCEPT !.reason = c.error])

\* the batch awaited before the handler returns
waitUntil_Await(scheduled, r) ==
    IF scheduled THEN Running("await", NoCall) ELSE Returned(r)

\* line 198-214: ctx.waitUntil(promise) registers the promise of the batch and
\* returns; the handler goes on to its return statement
waitUntil(scheduled, r) == Returned(r)

\* the target page and what it is served as
DocUrl == Chars("https://mp.weixin.qq.com/s/abc")

Documents ==
    { [contentType |-> Chars("text/html; charset=utf-8"),
       body |-> Chars("<img src=\"https://mmbiz.qpic.cn/img/1?wx_fmt=png&amp;tp=1\">")],
      [contentType |-> Chars("text/plain"),
       body |-> Chars("see https://mmbiz.qpic.cn/img/1?wx_fmt=png")] }

Requests ==
    { [method |-> "GET", json |-> TRUE, url |-> DocUrl, content |-> Null, html |-> Null, raw |-> FALSE],
      [method |-> "GET", json |-> TRUE, url |-> DocUrl, content |-> Null, html |-> Null, raw |-> TRUE],
      [method |-> "POST", json |-> TRUE, url |-> <<>>,
       content |-> Chars("<p><img src=\"https://mmbiz.qlogo.cn/l/0\"></p>"), html |-> Null, raw |-> FALSE],
      [method |-> "POST", json |-> TRUE, url |-> DocUrl,
       content |-> Chars("<p>no image</p>"), html |-> Null, raw |-> FALSE],
      [method |-> "POST", json |-> TRUE, url |-> DocUrl, content |-> Null,
       html |-> Chars("<p>no image</p>"), raw |-> FALSE],
      [method |-> "POST", json |-> TRUE, url |-> DocUrl, content |-> <<>>,
       html |-> Chars("<p>no image</p>"), raw |-> FALSE],
      [method |-> "POST", json |-> FALSE, url |-> <<>>, content |-> Null, html |-> Null, raw |-> FALSE],
      [method |-> "GET", json |-> TRUE, url |-> <<>>, content |-> Null, html |-> Null, raw |-> FALSE],
      [method |-> "GET", json |-> TRUE, url |-> Chars("not a url"), content |-> Null, html |-> Null,
       raw |-> FALSE],
      [method |-> "OPTIONS", json |-> TRUE, url |-> <<>>, content |-> Null, html |-> Null, raw |-> FALSE],
      [method |-> "DELETE", json |-> TRUE, url |-> <<>>, content |-> Null, html |-> Null, raw |-> FALSE] }

\* what env.AI.toMarkdown answers with
Conversions ==
    { [NoConversion EXCEPT
          !.format = "markdown",
          !.data = Chars("![x](https://mmbiz.qpic.cn/img/1?wx_fmt=png&amp;tp=1)")],
      [NoConversion EXCEPT
          !.format = "markdown",
          !.data = Chars("---\ntitle: t\n---\n\n![x](https://mmbiz.qpic.cn/img/1?wx_fmt=png)")],
      [NoConversion EXCEPT
          !.format = "markdown",
          !.data = Chars("![x](https://mmbiz.qpic.cn/img/1?wx_fmt=png&tp=1)")],
      [NoConversion EXCEPT !.format = "markdown", !.data = Chars("no image")],
      [NoConversion EXCEPT !.format = "error", !.error = "unsupported type"],
      [NoConversion EXCEPT !.format = "error", !.error = "too large"] }

\* the values FETCH_MAX_ATTEMPTS takes
HandlerAttempts == {1, 2}

\* the values R2_PUBLIC_URL takes: absent, and the address of the bucket
HandlerPublicUrls == {<<>>, Chars("https://cdn.example/pub")}

\* what earlier requests left in the bucket: nothing, or the image of the page
HandlerBuckets ==
    {<<>>, Put(<<>>, toR2Key(UrlLong, NoEnv), Object(UrlLong, Served(UrlLong), NoEnv))}

InitHandler ==
    /\ FetchIdle
    /\ PureIdle
    /\ \E a \in HandlerAttempts, b \in HandlerPublicUrls, c \in BOOLEAN :
          env = [NoEnv EXCEPT !.FETCH_MAX_ATTEMPTS = a, !.R2_PUBLIC_URL = b,
                              !.IMAGES_BUCKET = c]
    /\ imageUrls = <<>>
    /\ pc = "idle"
    /\ i = 0
    /\ win = {}
    /\ task = <<>>
    /\ stats = [uploaded |-> 0, skipped |-> 0, failed |-> 0]
    /\ bucket \in HandlerBuckets
    /\ log = {}
    /\ hpc = "idle"
    /\ request \in Requests
    /\ document \in Documents
    /\ conversion = NoConversion
    /\ response = NoResponse

\* the handler reaches its next await, or returns
Proceed(h) ==
    /\ hpc' = h.hpc
    /\ response' = h.response

\* line 38-139: the request arrives
Handle ==
    /\ hpc = "idle"
    /\ Proceed(Received(request, env))
    /\ rf' = Received(request, env).rf
    /\ UNCHANGED <<trace, delays, request, document, conversion>>
    /\ UNCHANGED <<mirrorVars, pureVars>>

\* line 136-146: robustFetch has returned or thrown
Fetched ==
    /\ hpc = "fetch"
    /\ rf.pc \in {"returned", "thrown"}
    /\ Proceed(AfterDocument(rf))
    /\ UNCHANGED <<request, document, conversion>>
    /\ UNCHANGED <<fetchVars, mirrorVars, pureVars>>

\* line 146-172: response.arrayBuffer() resolves; env.AI.toMarkdown is called
DocBody ==
    /\ hpc = "body"
    /\ Proceed(Running("convert", NoCall))
    /\ UNCHANGED <<request, document, conversion>>
    /\ UNCHANGED <<fetchVars, mirrorVars, pureVars>>

\* line 146, 215-217: response.arrayBuffer() rejects
DocBodyThrows ==
    /\ hpc = "body"
    /\ Proceed(Returned(ErrorResponse(500, "Internal error")))
    /\ UNCHANGED <<request, document, conversion>>
    /\ UNCHANGED <<fetchVars, mirrorVars, pureVars>>

\* line 172-214: env.AI.toMarkdown resolves: on a conversion the text is
\* rewritten, uploadImages is called (it runs up to its first await, line
\* 155-180) and handed to ctx.waitUntil, and the handler returns
Converted ==
    /\ hpc = "convert"
    /\ \E c \in Conversions :
          /\ conversion' = c
          /\ IF c.format = "error"
             THEN /\ Proceed(Failed(c))
                  /\ UNCHANGED <<imageUrls, pc, i, win, task, stats>>
             ELSE \E p \in {Proxied(request, document, c.data, env)} :
                      /\ Proceed(waitUntil(p.urls # <<>>, SuccessResponse(request, p.markdown)))
                      /\ IF p.urls # <<>>
                         THEN /\ imageUrls' = p.urls
                              /\ Enter(Window(p.urls, env, [k \in DOMAIN p.urls |-> NewTask],
                                              stats, 0))
                         ELSE UNCHANGED <<imageUrls, pc, i, win, task, stats>>
    /\ UNCHANGED <<env, bucket, log, request, document>>
    /\ UNCHANGED <<fetchVars, pureVars>>

\* line 172, 215-217: env.AI.toMarkdown rejects
ConvertThrows ==
    /\ hpc = "convert"
    /\ Proceed(Returned(ErrorResponse(500, "Internal error")))
    /\ UNCHANGED <<request, document, conversion>>
    /\ UNCHANGED <<fetchVars, mirrorVars, pureVars>>

NextHandler ==
    \/ Handle
    \/ RfResponse
    \/ RfError
    \/ RfWake
    \/ Fetched
    \/ DocBody
    \/ DocBodyThrows
    \/ Converted
    \/ ConvertThrows
    \/ NextWindow
    \/ \E k \in 1 .. Len(imageUrls) : Head_(k)
    \/ \E k \in 1 .. Len(imageUrls) : HeadThrows(k)
    \/ \E k \in 1 .. Len(imageUrls) : DownloadResponse(k)
    \/ \E k \in 1 .. Len(imageUrls) : DownloadError(k)
    \/ \E k \in 1 .. Len(imageUrls) : DownloadWake(k)
    \/ \E k \in 1 .. Len(imageUrls) : Body(k)
    \/ \E k \in 1 .. Len(imageUrls) : BodyThrows(k)
    \/ \E k \in 1 .. Len(imageUrls) : PutDone(k)
    \/ \E k \in 1 .. Len(imageUrls) : PutThrows(k)

SpecHandler == InitHandler /\ [][NextHandler]_vars

-----------------------------------------------------------------------------
(* Properties of robustFetch, under SpecFetch *)

\* the retryable statuses as the specification lists them
SpecRetryable == {408, 429, 500, 502, 503, 504}

IsRetryableResponse(o) == o.kind = "response" /\ o.status \in SpecRetryable

IsFinalResponse(o) == o.kind = "response" /\ o.status \notin SpecRetryable

StatusesOf(t) == [a \in DOMAIN t |-> t[a].status]

\* C1: with maxAttempts >= 1, when attempts 1..k-1 each answered with a
\* retryable status and attempt k with a status outside that set, the call has
\* returned the response of attempt k, after exactly k requests and exactly
\* k-1 back-off sleeps.
C1_ReturnsAfterTransientStatuses ==
    \A k \in 1 .. Len(trace) :
        ( /\ rf.maxAttempts >= 1
          /\ \A a \in 1 .. k - 1 : IsRetryableResponse(trace[a])
          /\ IsFinalResponse(trace[k]) )
        => /\ rf.pc = "returned"
           /\ rf.result = trace[k]
           /\ Len(trace) = k
           /\ rf.requests = k
           /\ rf.sleeps = k - 1
           /\ Len(delays) = k - 1

\* [503, 503, 200] with maxAttempts = 3: the 200 is returned, two delays
C1_Witness ==
    /\ rf.maxAttempts = 3
    /\ StatusesOf(trace) = <<503, 503, 200>>
    /\ rf.pc = "returned"
    /\ rf.result.status = 200
    /\ Len(delays) = 2

\* C2: when every one of the maxAttempts attempts answered with a retryable
\* status, the call has returned (not thrown) the response of the last attempt,
\* after exactly maxAttempts requests.
C2_ReturnsLastTransientResponse ==
    ( /\ rf.maxAttempts >= 1
      /\ Len(trace) = rf.maxAttempts
      /\ \A a \in 1 .. Len(trace) : IsRetryableResponse(trace[a]) )
    => /\ rf.pc = "returned"
       /\ rf.result = trace[rf.maxAttempts]
       /\ rf.requests = rf.maxAttempts

\* all 503 across maxAttempts = 2: the second 503 is returned
C2_Witness ==
    /\ rf.maxAttempts = 2
    /\ StatusesOf(trace) = <<503, 503>>
    /\ rf.pc = "returned"
    /\ rf.result = Response(503, 2)

\* C3: when every one of the maxAttempts attempts raised a network-level
\* exception, the call has thrown the exception of the last attempt, after
\* exactly maxAttempts requests, and has returned no response.
C3_ThrowsLastException ==
    ( /\ rf.maxAttempts >= 1
      /\ Len(trace) = rf.maxAttempts
      /\ \A a \in 1 .. Len(trace) : trace[a].kind = "error" )
    => /\ rf.pc = "thrown"
       /\ rf.result = trace[rf.maxAttempts]
       /\ rf.result.kind = "error"
       /\ rf.requests = rf.maxAttempts

\* three failing attempts, the last one a timeout after two connection errors
C3_Witness ==
    /\ rf.maxAttempts = 3
    /\ [a \in DOMAIN trace |-> trace[a].err] = <<"network", "network", "timeout">>
    /\ rf.pc = "thrown"
    /\ rf.result = Thrown("timeout", 3)

\* C4: a response with a status outside the retryable set is returned at once,
\* on whichever attempt it comes: it is the last request issued, the call has
\* returned it, and no sleep follows it (the sleeps are those of the earlier
\* attempts).
C4_NonRetryableReturnedAtOnce ==
    \A a \in 1 .. Len(trace) :
        IsFinalResponse(trace[a])
        => /\ a = Len(trace)
           /\ rf.pc = "returned"
           /\ rf.result = trace[a]
           /\ rf.requests = a
           /\ rf.sleeps = a - 1
           /\ Len(delays) = a - 1

\* a 404 on the second attempt of three, after a connection error
C4_Witness ==
    /\ rf.maxAttempts = 3
    /\ Len(trace) = 2
    /\ trace[1].kind = "error"
    /\ trace[2] = Response(404, 2)
    /\ rf.pc = "returned"
    /\ rf.requests = 2

-----------------------------------------------------------------------------
(* Properties of uploadImages, under SpecMirror *)

Positions == 1 .. Len(imageUrls)

\* the tasks between their start and their settlement
InFlight == {k \in Positions : task[k].pc \in {"head", "download", "body", "put"}}

IsSettled(t) == t.pc \in {"fulfilled", "rejected"}

\* the window of position k when the list is cut in windows of L
WindowOf(k, L) == (k - 1) \div L

\* C5: with a positive integer concurrency limit L, at most L tasks are in
\* flight in every reachable state of a batch, whatever the length of the list.
C5_AtMostLInFlight ==
    imageUploadConcurrency(env) > 0
    => Cardinality(InFlight) <= imageUploadConcurrency(env)

\* a list longer than L = 2 with two tasks in flight in its first window
C5_Witness ==
    /\ imageUploadConcurrency(env) = 2
    /\ Len(imageUrls) = 3
    /\ Cardinality(InFlight) = 2
    /\ task[3].pc = "new"

\* C6: when the batch returns, uploaded + skipped + failed is the number of
\* URLs of the list, every URL having incremented exactly one counter once.
C6_StatsSumToBatchSize ==
    /\ \A n \in {"uploaded", "skipped", "failed"} :
          stats[n] = Counted(task, Positions, n)
    /\ pc = "returned"
       => /\ stats.uploaded + stats.skipped + stats.failed = Len(imageUrls)
          /\ \A k \in Positions : Len(task[k].counted) = 1

\* a returned batch of three with one upload, one skip and one rejected put
C6_Witness ==
    /\ pc = "returned"
    /\ stats = [uploaded |-> 1, skipped |-> 1, failed |-> 1]
    /\ \E k \in Positions : task[k].threw = "put"

\* C7: no task of a later window has started while a task of an earlier
\* window is not settled.
C7_WindowsDoNotOverlap ==
    imageUploadConcurrency(env) > 0
    => \A a, b \in Positions :
          ( /\ WindowOf(a, imageUploadConcurrency(env))
                  < WindowOf(b, imageUploadConcurrency(env))
            /\ task[b].pc # "new" )
          => IsSettled(task[a])

\* the second window in flight after a first window that ended with a
\* rejection and a counted failure
C7_Witness ==
    /\ imageUploadConcurrency(env) = 2
    /\ Len(imageUrls) = 3
    /\ task[1].pc = "rejected"
    /\ task[2].counted = <<"failed">>
    /\ task[3].pc = "download"

\* C8: a URL whose key the existence check found in the bucket is never
\* downloaded and never put, and is counted as skipped.
C8_CachedNeverDownloaded ==
    \A k \in Positions :
        task[k].head = "hit"
        => /\ task[k].download = "none"
           /\ task[k].dl = NoCall
           /\ task[k].res = NoValue
           /\ task[k].puts = 0
           /\ task[k].counted = <<"skipped">>
           /\ \A e \in log : e.by # k

\* a batch that returned after a hit on an object an earlier request left
C8_Witness ==
    /\ pc = "returned"
    /\ \E k \in Positions : task[k].head = "hit" /\ task[k].key \in DOMAIN bucket
    /\ stats.skipped >= 1

\* C9: the bucket receives at most one put per key, and no put writes over an
\* object that is already there.
C9_AtMostOnePutPerKey ==
    /\ \A e \in log : ~e.over
    /\ \A e1, e2 \in log : e1.key = e2.key => e1 = e2

\* C10: a rejected task is counted as failed exactly once, every other URL of
\* the batch reaches its own outcome, and the batch itself does not reject:
\* when it returns, every task is settled and counted once.
C10_RejectionDoesNotAbort ==
    /\ pc # "rejected"
    /\ \A k \in Positions : Counted(task, {k}, "failed") <= 1
    /\ pc = "returned"
       => \A k \in Positions :
             /\ IsSettled(task[k])
             /\ Len(task[k].counted) = 1
             /\ task[k].pc = "rejected" => task[k].counted = <<"failed">>

\* a returned batch whose first task rejected when its put threw: its sibling
\* of the same window uploaded, and the task of the next window found that
\* object and skipped
C10_Witness ==
    /\ pc = "returned"
    /\ imageUploadConcurrency(env) = 2
    /\ Len(imageUrls) = 3
    /\ task[1].pc = "rejected"
    /\ task[1].threw = "put"
    /\ task[2].counted = <<"uploaded">>
    /\ task[3].head = "hit"
    /\ stats = [uploaded |-> 1, skipped |-> 1, failed |-> 1]

-----------------------------------------------------------------------------
(* Properties of uploadImages and toR2Key, under SpecItems *)

\* the host of the URL ends with one of the configured suffixes
HostAllowed(url, e) ==
    /\ URL(url).ok
    /\ \E n \in DOMAIN allowedImageHosts(e) :
          EndsWith(URL(url).hostname, allowedImageHosts(e)[n])

\* C11: a URL whose download returned a response that is not 2xx is counted
\* as failed, its task ends there, no put is issued for its key and no object
\* of the bucket is written by it.
C11_NonSuccessDownloadFails ==
    \A k \in Positions :
        task[k].download = "notok"
        => /\ task[k].pc = "fulfilled"
           /\ task[k].counted = <<"failed">>
           /\ task[k].puts = 0
           /\ \A e \in log : e.by # k

\* a returned batch with a download that was answered 404 or 503, and a
\* bucket nobody wrote to
C11_Witness ==
    /\ pc = "returned"
    /\ \E k \in Positions : task[k].download = "notok" /\ task[k].head = "miss"
    /\ stats.failed >= 1
    /\ log = {}

\* C12: for a URL that does not parse or whose host ends with none of the
\* configured suffixes, toR2Key returns null; uploadImages counts it as
\* skipped without a head, a download or a put, and no object is ever
\* written for it.
C12_OutsideAllowListSkipped ==
    \A k \in Positions :
        ~HostAllowed(imageUrls[k], env)
        => /\ toR2Key(imageUrls[k], env) = <<>>
           /\ task[k].key = <<>>
           /\ task[k].pc \in {"new", "fulfilled"}
           /\ task[k].pc = "fulfilled" => task[k].counted = <<"skipped">>
           /\ task[k].head = "none"
           /\ task[k].download = "none"
           /\ task[k].puts = 0
           /\ Counted(task, {k}, "uploaded") = 0
           /\ \A e \in log : e.by # k

\* a returned batch of a URL that does not parse and of a qpic.cn URL under an
\* allow-list that names another suffix only: both skipped, nothing written
C12_Witness ==
    /\ pc = "returned"
    /\ env.IMAGE_PROXY_HOSTS # <<>>
    /\ imageUrls = <<UrlBad, UrlA>>
    /\ stats = [uploaded |-> 0, skipped |-> 2, failed |-> 0]
    /\ log = {}

-----------------------------------------------------------------------------
(* Properties of rewriteImageUrls and toR2Key, under SpecPure *)

Rewritten == input.fn = "rewriteImageUrls" /\ output.done >= 1

\* the URL of position k of the list has a key
Keyed(k) == toR2Key(input.urls[k], InputEnv) # <<>>

\* {publicBaseUrl}/{key} for the URL of position k of the list
ReplacementOf(k) == input.base \o <<"/">> \o toR2Key(input.urls[k], InputEnv)

\* the number of places of text where sub occurs
Occurrences(text, sub) ==
    Cardinality({p \in 1 .. Len(text) - Len(sub) + 1 :
                    SubSeq(text, p, p + Len(sub) - 1) = sub})

\* C13: when no URL of the list has a key (or the list is empty) the result
\* is the text it was given; and in every case the occurrences of a listed URL
\* without a key are as many after as before.
C13_UnkeyedUrlsUntouched ==
    Rewritten
    => /\ (\A k \in DOMAIN input.urls : ~Keyed(k)) => output.result = input.text
       /\ \A k \in DOMAIN input.urls :
             ~Keyed(k)
             => Occurrences(output.result, input.urls[k])
                   = Occurrences(input.text, input.urls[k])

\* a text that holds the qlogo.cn URL, the only URL of the list: unchanged
C13_Witness ==
    /\ Rewritten
    /\ input.urls = <<UrlLogo>>
    /\ Includes(input.text, UrlLogo)
    /\ output.result = input.text

\* the keys of the URLs of KeyPool, as the rule gives them: the host with "_"
\* for ".", the path without its leading "/", and the extension: the wx_fmt
\* parameter through the table (a value the table does not list, as it is),
\* else the first hint of the table that the path holds, else jpg
KeyExamples ==
    { [url |-> Chars("https://mmbiz.qpic.cn/sz_mmbiz_png/abc/640?wx_fmt=png"),
       key |-> Chars("mmbiz_qpic_cn/sz_mmbiz_png/abc/640.png")],
      [url |-> Chars("https://mmbiz.qpic.cn/mmbiz_gif/abc/640?wx_fmt=jpeg"),
       key |-> Chars("mmbiz_qpic_cn/mmbiz_gif/abc/640.jpg")],
      [url |-> Chars("https://mmbiz.qpic.cn/mmbiz_gif/abc/0"),
       key |-> Chars("mmbiz_qpic_cn/mmbiz_gif/abc/0.gif")],
      [url |-> Chars("https://mmbiz.qpic.cn/mmbiz/abc/0"),
       key |-> Chars("mmbiz_qpic_cn/mmbiz/abc/0.jpg")],
      [url |-> Chars("http://mmbiz.qpic.cn/mmbiz_jpg/a_png/0?tp=webp"),
       key |-> Chars("mmbiz_qpic_cn/mmbiz_jpg/a_png/0.png")],
      [url |-> Chars("https://mmbiz.qpic.cn/mmbiz_webp/x/0?tp=webp&wx_fmt=gif"),
       key |-> Chars("mmbiz_qpic_cn/mmbiz_webp/x/0.gif")],
      [url |-> Chars("https://mmbiz.qpic.cn/mmbiz/x/0?wx_fmt=bmp"),
       key |-> Chars("mmbiz_qpic_cn/mmbiz/x/0.bmp")],
      [url |-> Chars("https://wx.qlogo.cn/mmhead/abc/132"),
       key |-> Chars("wx_qlogo_cn/mmhead/abc/132.jpg")],
      [url |-> Chars("https://mmbiz.qpic.cn/"),
       key |-> Chars("mmbiz_qpic_cn/.jpg")] }

\* C15: for a URL of an allow-listed host, toR2Key returns the host with "_"
\* for ".", "/", the path without its leading "/", ".", and the extension
\* chosen by priority: wx_fmt through the table, else the first table hint
\* found in the path as _hint, else jpg.
C15_KeyFormat ==
    ( /\ input.fn = "toR2Key"
      /\ output.done = 1
      /\ HostAllowed(input.urls[1], InputEnv) )
    => \E x \in KeyExamples : x.url = input.urls[1] /\ x.key = output.key

\* the example of the specification
C15_Witness ==
    /\ input.fn = "toR2Key"
    /\ output.done = 1
    /\ input.urls[1] = Chars("https://mmbiz.qpic.cn/sz_mmbiz_png/abc/640?wx_fmt=png")
    /\ output.key = Chars("mmbiz_qpic_cn/sz_mmbiz_png/abc/640.png")

ForeignBase ==
    \A j, k \in DOMAIN input.urls :
        (Keyed(j) /\ Keyed(k)) => ~Includes(ReplacementOf(j), input.urls[k])

C17_EntityFragmentsAbsorbed ==
    Rewritten
    => \A k \in DOMAIN input.urls :
          (Keyed(k) /\ Includes(input.text, input.urls[k] \o AmpEntity))
          => /\ Includes(output.result, ReplacementOf(k))
             /\ ~Includes(output.result, AmpEntity)

\* C18: where the text holds a listed URL that has a key, followed at once by
\* fragments after a plain & (not &amp;), the result holds
\* {publicBaseUrl}/{key} of that URL and nothing of the fragments (the texts
\* hold & nowhere else).
C18_PlainFragmentsAbsorbed ==
    Rewritten
    => \A k \in DOMAIN input.urls :
          ( /\ Keyed(k)
            /\ Includes(input.text, input.urls[k] \o AmpLiteral)
            /\ ~Includes(input.text, input.urls[k] \o AmpEntity) )
          => /\ Includes(output.result, ReplacementOf(k))
             /\ ~Includes(output.result, AmpLiteral)


-----------------------------------------------------------------------------
(* Properties of the request handler, under SpecHandler *)

\* no bucket.head, download or bucket.put of the scheduled batch has completed
NoMirrorStepDone ==
    /\ \A k \in DOMAIN task :
          /\ task[k].head = "none"
          /\ task[k].download = "none"
          /\ task[k].puts = 0
          /\ task[k].threw = ""
          /\ task[k].pc \in {"new", "head", "fulfilled"}
    /\ stats.uploaded = 0
    /\ stats.failed = 0
    /\ log = {}

\* C19: the handler returns its response without awaiting the mirror batch:
\* in the step that schedules uploadImages the response is returned, so a
\* scheduled batch never finds the handler still waiting; and the step that
\* returns the response leaves the bucket as it was, with no head, download or
\* put of the batch completed.
C19_ResponseNotAwaitingMirror ==
    /\ [](pc # "idle" => hpc = "done" /\ response.status = 200)
    /\ [][response' # response => NoMirrorStepDone' /\ bucket' = bucket]_vars

\* the response is out and the batch stands at its first await: the head
\* requests of the first window issued, none answered
C19_Witness ==
    /\ hpc = "done"
    /\ response.status = 200
    /\ pc = "running"
    /\ \E k \in win : task[k].pc = "head"
    /\ NoMirrorStepDone

\* the text of a successful response, from the request, the fetched document,
\* the conversion result and the configuration alone
DeterminedText ==
    LET Text(markdown, urls) ==
            IF urls = <<>> THEN markdown
            ELSE rewriteImageUrls(markdown, urls, env.R2_PUBLIC_URL, env)
        Urls(markdown, html) ==
            Text(markdown, IF env.IMAGES_BUCKET /\ env.R2_PUBLIC_URL # <<>>
                           THEN collectImageUrls(html, markdown) ELSE <<>>)
    IN  Urls(StripFrontmatter(conversion.data),
             IF isHtmlContent(ContentTypeOf(request, document))
             THEN BodyOf(request, document) ELSE <<>>)

\* C20: mirror outcomes do not influence the response: the status and the
\* body returned after a conversion are determined by the request, the
\* fetched document, the conversion result and the configuration, whatever
\* the bucket holds and whatever the head, download and put operations of the
\* batch do; and a response once returned is never changed by a step of the
\* batch.
C20_MirrorDoesNotInfluenceResponse ==
    /\ [](conversion.format = "markdown"
            => response = SuccessResponse(request, DeterminedText))
    /\ [][response # NoResponse => response' = response]_vars

\* the batch of a request is over with a failed download, a rejected task or
\* an object found in the bucket, and the response is the one that was returned
C20_Witness ==
    /\ pc = "returned"
    /\ response.status = 200
    /\ \E k \in DOMAIN task : task[k].threw # "" \/ task[k].download \in {"notok", "threw"}
    /\ \E k \in DOMAIN task : task[k].puts = 0

\* the primary document fetch has failed: robustFetch threw, or returned a
\* response whose status is not a success
FetchThrew == rf.pc = "thrown"
FetchNotOk == rf.pc = "returned" /\ ~Ok(rf.result.status)

\* C21: when the primary document fetch fails the pipeline is aborted: a
\* non-success final status is answered with 502, an exception with 500, the
\* conversion service is never called (the handler never waits for
\* toMarkdown), no text is returned and no mirror batch is scheduled.
C21_FetchFailureAborts ==
    (FetchThrew \/ FetchNotOk) =>
        /\ hpc \in {"fetch", "done"}
        /\ hpc = "done" =>
              response = IF FetchThrew THEN ErrorResponse(500, "Internal error")
                         ELSE ErrorResponse(502, "Failed to fetch URL")
        /\ conversion = NoConversion
        /\ response.markdown = <<>>
        /\ pc = "idle"
        /\ imageUrls = <<>>

\* the second and last attempt of the document fetch threw, and the handler
\* has answered
C21_Witness ==
    /\ FetchThrew
    /\ rf.requests = 2
    /\ hpc = "done"
    /\ response.status = 500

\* line 193: the public base URL or the bucket binding is missing
Unconfigured == ~env.IMAGES_BUCKET \/ env.R2_PUBLIC_URL = <<>>

\* C22: without the public base URL or without the bucket binding the handler
\* extracts, rewrites and stores nothing: no batch is ever scheduled, the
\* bucket is never changed, and the text returned after a conversion is the
\* converted text (less its frontmatter) with its links as they were.
C22_UnconfiguredDisablesMirror ==
    /\ [](Unconfigured =>
            /\ pc = "idle"
            /\ imageUrls = <<>>
            /\ task = <<>>
            /\ log = {}
            /\ conversion.format = "markdown" =>
                  response.markdown = StripFrontmatter(conversion.data))
    /\ [][Unconfigured => bucket' = bucket]_vars

\* a page with an image was converted and answered without a public base URL
C22_Witness ==
    /\ env.IMAGES_BUCKET
    /\ env.R2_PUBLIC_URL = <<>>
    /\ hpc = "done"
    /\ response.status = 200
    /\ Includes(response.markdown, UrlLong)
    /\ pc = "idle"

-----------------------------------------------------------------------------
(* Properties of collectImageUrls, under SpecExtract *)

\* the list collectImageUrls returned
Collected == input.fn = "collectImageUrls" /\ output.done = 1

\* C23: the list collectImageUrls returns holds no URL twice.  The set of
\* line 96-98 holds the matches as they were found; line 101 strips their
\* trailing punctuation afterwards, so two matches that differ in it only
\* leave the function as two equal strings.
C23_NoDuplicates ==
    Collected =>
        \A k, m \in DOMAIN output.result : output.result[k] = output.result[m] => k = m

\* the media URLs the markups and the texts of the model hold
MediaPool == {UrlShort, UrlLong, UrlLogo, UrlAvatar, UrlOther}

\* C24: the extractor follows the configured allow-list: a media URL of the
\* markup or of the text is returned exactly when its host ends with an allowed
\* suffix, and every returned URL has a key.  collectImageUrls takes no
\* configuration: WECHAT_IMG_RE names mmbiz.qpic.cn and mmbiz.qlogo.cn, whatever
\* IMAGE_PROXY_HOSTS says.
C24_ExtractorFollowsAllowList ==
    Collected =>
        /\ \A u \in MediaPool :
              Includes(input.html, u) \/ Includes(input.text, u) =>
                  ((\E k \in DOMAIN output.result : output.result[k] = u)
                      <=> HostAllowed(u, InputEnv))
        /\ \A k \in DOMAIN output.result : toR2Key(output.result[k], InputEnv) # <<>>

-----------------------------------------------------------------------------
(* Properties of the objects written, under SpecItems *)

\* C25: every object uploadImages writes carries the original URL, the expiry
\* (the moment of the write plus the configured TTL) and, as its extension,
\* the extension the key deriver inferred for the URL, which ends the key.
\* The extension of the metadata is taken from the Content-Type of the
\* download instead (line 211), the one of the key from the URL (line 75).
C25_MetadataExtensionIsKeyExtension ==
    [][\A k \in DOMAIN task :
          task[k].pc = "put" /\ task'[k].pc = "fulfilled" =>
              LET meta == bucket'[task[k].key].customMetadata
              IN  /\ meta.originalUrl = imageUrls[k]
                  /\ meta.expiresAt = imageTtlMs(env)
                  /\ meta.extension = inferExtension(URL(imageUrls[k]))
                  /\ EndsWith(task[k].key, <<".">> \o meta.extension)]_vars

-----------------------------------------------------------------------------
(* Properties of the backoff, under SpecFetch *)

\* C26: the delay slept after the failed attempt a, a < maxAttempts, is a
\* whole number of milliseconds from baseDelay * 2^(a-1) / 2 (rounded) up to
\* baseDelay * 2^(a-1), so its upper bound doubles from one retry to the
\* next; with baseDelay = 800 the first two lie in 400..800 and 800..1600.
C26_BackoffBounds ==
    /\ \A a \in DOMAIN delays :
          /\ a < rf.maxAttempts
          /\ delays[a] \in Nat
          /\ 2 * delays[a] >= rf.baseDelay * Pow2(a - 1)
          /\ delays[a] <= rf.baseDelay * Pow2(a - 1)
    /\ rf.baseDelay = 800 /\ Len(delays) >= 1 => delays[1] \in 400 .. 800
    /\ rf.baseDelay = 800 /\ Len(delays) >= 2 => delays[2] \in 800 .. 1600

\* a call with the default baseDelay has slept twice, the second time longer
\* than any first sleep can be
C26_Witness ==
    /\ rf.baseDelay = 800
    /\ Len(delays) = 2
    /\ delays[2] > 800

-----------------------------------------------------------------------------
(* Properties of toR2Key on two URLs, under SpecKeys *)

\* C27: two allow-listed URLs with the same key have the same host, the
\* same path and the same inferred extension.  The key joins the host (its
\* dots turned into underscores), the path and the extension with "/" and
\* ".", characters that the parts themselves may hold.
C27_EqualKeysEqualParts ==
    ( /\ input.fn = "toR2Key"
      /\ output.done = 2
      /\ output.key # <<>>
      /\ output.key = output.again )
    => /\ URL(input.urls[1]).hostname = URL(input.urls[2]).hostname
       /\ URL(input.urls[1]).pathname = URL(input.urls[2]).pathname
       /\ inferExtension(URL(input.urls[1])) = inferExtension(URL(input.urls[2]))

-----------------------------------------------------------------------------
(* Properties of the conversion step, under SpecHandler *)

\* C28: the conversion service is called at most once per request and never
\* again: the step that ends the wait for toMarkdown ends the handler, which
\* then stays as it is; and when the service reports a failure the response is
\* 422 with the reason of the service, without text, and no batch is
\* scheduled.
C28_ConversionOnceAndFailureReported ==
    /\ [][hpc = "convert" => hpc' = "done"]_vars
    /\ [][hpc = "done" => hpc' = "done"]_vars
    /\ [](conversion.format = "error" =>
            /\ response.status = 422
            /\ response.kind = "error"
            /\ response.error = "Conversion failed"
            /\ response.reason = conversion.error
            /\ response.markdown = <<>>
            /\ pc = "idle"
            /\ imageUrls = <<>>
            /\ log = {})

\* the conversion of a fetched page with an image failed, with the mirror
\* configured, and the handler has answered
C28_Witness ==
    /\ conversion.format = "error"
    /\ conversion.error = "too large"
    /\ response.status = 422
    /\ hpc = "done"
    /\ ~Unconfigured
    /\ ~Given(directContent(request))
    /\ Includes(BodyOf(request, document), UrlLong)

-----------------------------------------------------------------------------
(* Properties of the bucket, under SpecItems *)

\* C29: the store is only asked whether a key exists (head) and written to
\* (put): no step removes an object, a step changes the bucket only under the
\* derived key of a URL of the batch whose put completes in that step, and
\* what a task keeps of the store's answers is whether its key was found.
C29_OnlyHeadAndPut ==
    /\ [][\A key \in DOMAIN bucket : key \in DOMAIN bucket']_vars
    /\ [][\A key \in DOMAIN bucket' :
             (key \notin DOMAIN bucket \/ bucket'[key] # bucket[key]) =>
                 \E k \in DOMAIN imageUrls :
                     /\ key = toR2Key(imageUrls[k], env)
                     /\ task[k].pc = "put"
                     /\ task'[k].puts = task[k].puts + 1]_vars
    /\ [](\A k \in DOMAIN task : task[k].head \in {"none", "hit", "miss", "throw"})

\* an object was written next to the one an earlier request had left, which
\* is as it was
C29_Witness ==
    /\ log # {}
    /\ \E l \in log : ~l.over
    /\ toR2Key(UrlB, NoEnv) \in DOMAIN bucket
    /\ bucket[toR2Key(UrlB, NoEnv)] = Object(UrlB, Served(UrlB), NoEnv)
    /\ \A k \in DOMAIN imageUrls : toR2Key(imageUrls[k], env) # toR2Key(UrlB, NoEnv)

-----------------------------------------------------------------------------
(* Properties of the direct content branch, under SpecHandler *)

\* the POST body holds a content or an html member that is not empty
DirectContentSupplied ==
    /\ request.method = "POST"
    /\ request.json
    /\ Given(request.content) \/ Given(request.html)

\* C30: a POST that supplies direct content, as content or as html, is
\* converted from that content, and the primary document fetch is never
\* issued, a url in the body or not.  directContent is body.content ??
\* body.html: an empty content member hides the html member, and with a url
\* the handler fetches.
C30_DirectContentNeverFetches ==
    DirectContentSupplied =>
        /\ rf = NoCall
        /\ hpc \in {"idle", "convert", "done"}

-----------------------------------------------------------------------------
(* Mixed outcomes, request and sleep counts, and a non-positive maxAttempts,
   under SpecFetch *)

\* the outcome of the attempt numbered maxAttempts, once it is known
FinalAttempt == trace[rf.maxAttempts]

\* C31: with mixed outcomes the final attempt alone decides. When an earlier
\* attempt raised and the attempt numbered maxAttempts answered a retryable
\* status, the call has returned that response and raised nothing; when an
\* earlier attempt answered a retryable status and the attempt numbered
\* maxAttempts raised, the call has thrown that exception and returned no
\* response.
C31_FinalAttemptDecides ==
    ( /\ rf.maxAttempts >= 2
      /\ Len(trace) = rf.maxAttempts )
    => /\ ( /\ \E a \in 1 .. rf.maxAttempts - 1 : trace[a].kind = "error"
            /\ IsRetryableResponse(FinalAttempt) )
          => /\ rf.pc = "returned"
             /\ rf.result = FinalAttempt
       /\ ( /\ \E a \in 1 .. rf.maxAttempts - 1 : IsRetryableResponse(trace[a])
            /\ FinalAttempt.kind = "error" )
          => /\ rf.pc = "thrown"
             /\ rf.result = FinalAttempt
             /\ rf.result.kind = "error"

\* a connection error, a 503, a timeout: the timeout is thrown although a
\* response was seen, and the connection error is forgotten
C31_Witness ==
    /\ rf.maxAttempts = 3
    /\ Len(trace) = 3
    /\ trace[1] = Thrown("network", 1)
    /\ trace[2] = Response(503, 2)
    /\ trace[3] = Thrown("timeout", 3)
    /\ rf.pc = "thrown"
    /\ rf.result = Thrown("timeout", 3)

\* the call has finished: it returned a response or threw
Finished == rf.pc \in {"returned", "thrown"}

\* C32: with maxAttempts >= 1 the number of requests issued never exceeds
\* maxAttempts, each request has one recorded outcome at most, and when the
\* call has finished the number of back-off sleeps is the number of requests
\* minus one: no sleep follows the final request, response or exception.
C32_RequestsAndSleeps ==
    rf.maxAttempts >= 1
    => /\ rf.requests <= rf.maxAttempts
       /\ Len(trace) <= rf.requests
       /\ Len(delays) = rf.sleeps
       /\ Finished
          => /\ rf.requests >= 1
             /\ Len(trace) = rf.requests
             /\ rf.sleeps = rf.requests - 1

\* three requests that all raised: two sleeps, none after the third
C32_Witness ==
    /\ rf.maxAttempts = 3
    /\ rf.pc = "thrown"
    /\ rf.requests = 3
    /\ rf.sleeps = 2
    /\ Len(delays) = 2
    /\ trace[3].kind = "error"

\* the negative settings of FETCH_MAX_ATTEMPTS looked at
NegativeSettings == -MaxAttemptsBound .. -1

\* C34: with maxAttempts <= 0, which fetchMaxAttempts passes on for a negative
\* FETCH_MAX_ATTEMPTS, the call issues no request and performs no sleep, and
\* it throws the generic "Failed to fetch ... after N attempts" error instead
\* of returning a response.
C34_NoAttemptsThrowsGeneric ==
    /\ \A n \in NegativeSettings :
          fetchMaxAttempts([NoEnv EXCEPT !.FETCH_MAX_ATTEMPTS = n]) = n
    /\ rf.maxAttempts <= 0
       => /\ rf.requests = 0
          /\ rf.sleeps = 0
          /\ trace = <<>>
          /\ delays = <<>>
          /\ rf.pc \in {"idle", "thrown"}
          /\ rf.pc = "thrown"
             => /\ rf.result = Thrown("Failed to fetch", 0)
                /\ rf.lastError = NoValue

\* the call with maxAttempts = -1 has thrown without a request
C34_Witness ==
    /\ rf.maxAttempts = -1
    /\ rf.pc = "thrown"
    /\ rf.result.err = "Failed to fetch"
    /\ rf.requests = 0

-----------------------------------------------------------------------------
(* Termination of uploadImages, under SpecBatch *)

\* C33: whatever number the concurrency setting is, negative ones included,
\* a batch over a finite list eventually returns its stats when every head,
\* download and put eventually settles.
C33_BatchReturns == <>(pc = "returned")

\* with a positive setting, and with the default, the batch returns
BatchReturnsWhenPositive ==
    (imageUploadConcurrency(env) > 0) => <>(pc = "returned")

\* with a negative setting and a list that is not empty the loop never ends:
\* i never reaches the length of the list
BatchRunsForeverWhenNegative ==
    (imageUploadConcurrency(env) < 0 /\ Len(imageUrls) > 0) => [](pc # "returned")

-----------------------------------------------------------------------------
(* The order of the steps of one item, under SpecItems *)

\* the task of position k has issued its put: it waits for it, it settled
\* after it, or it wrote an object
PutIssued(k) ==
    \/ task[k].pc = "put"
    \/ task[k].puts > 0
    \/ task[k].threw = "put"
    \/ \E l \in log : l.by = k

\* C35: every put is preceded, in the task of the same item, by an existence
\* check of the item's key that reported absence and then by a download that
\* returned a success status; no download starts before the check reported
\* absence, and no put is issued before or without both.
C35_PutAfterMissAndDownload ==
    \A k \in 1 .. Len(imageUrls) :
        /\ task[k].download # "none" => task[k].head = "miss"
        /\ PutIssued(k)
           => /\ task[k].head = "miss"
              /\ task[k].download = "ok"
              /\ task[k].key = toR2Key(imageUrls[k], env)
              /\ task[k].key # <<>>
              /\ task[k].pc = "put" => Ok(task[k].res.status)
              /\ \A l \in log : l.by = k => l.key = task[k].key

\* a task that wrote its object after a miss and a successful download, next
\* to a task of an item without a key, which did none of the three
C35_Witness ==
    /\ Len(imageUrls) = 2
    /\ \E k \in 1 .. 2 :
          /\ task[k].puts = 1
          /\ task[k].head = "miss"
          /\ task[k].download = "ok"
          /\ task[k].key \in DOMAIN bucket
          /\ \E l \in log : l.by = k
    /\ \E k \in 1 .. 2 :
          /\ task[k].key = <<>>
          /\ task[k].head = "none"
          /\ task[k].download = "none"
          /\ task[k].counted = <<"skipped">>

-----------------------------------------------------------------------------
(* The links of the response and the objects of the bucket, under SpecHandler *)

\* the characters that end the path of a link in the text
LinkStop == FragmentStop \cup {"?", "#"}

\* the keys the links of text into the bucket name: for every place where
\* base and "/" occur, the path that follows
LinkedKeys(text, base) ==
    LET Key(from) == SubSeq(text, from, RunTo(text, from, LinkStop) - 1)
    IN  {Key(p + Len(base) + 1) :
            p \in {q \in 1 .. Len(text) - Len(base) :
                      SubSeq(text, q, q + Len(base)) = base \o <<"/">>}}

\* the batch the handler scheduled has returned, and every head, download and
\* put of it succeeded
BatchSucceeded ==
    /\ hpc = "done"
    /\ response.status = 200
    /\ imageUrls # <<>>
    /\ pc = "returned"
    /\ \A k \in DOMAIN task :
          /\ task[k].threw = ""
          /\ task[k].download \in {"none", "ok"}

\* C36: once a batch in which every head, download and put succeeded has
\* completed, every link into the bucket that the response text holds names
\* a key that exists in the bucket.
C36_MirroredLinksStored ==
    BatchSucceeded
    => \A key \in LinkedKeys(response.markdown, env.R2_PUBLIC_URL) :
          key \in DOMAIN bucket

\* the rewrite and the batch derive the same key for the same URL, and the
\* batch covers every URL of the list: after such a batch the key of every
\* listed URL that has one is in the bucket
ListedKeysStored ==
    BatchSucceeded
    => \A k \in DOMAIN imageUrls :
          toR2Key(imageUrls[k], env) # <<>>
          => /\ task[k].key = toR2Key(imageUrls[k], env)
             /\ task[k].key \in DOMAIN bucket

\* the links of the response whose source had no plain-& parameter after the
\* collected URL name stored keys
LinksWithoutResidueStored ==
    ( /\ BatchSucceeded
      /\ ~Includes(StripFrontmatter(conversion.data), Chars("png&tp")) )
    => \A key \in LinkedKeys(response.markdown, env.R2_PUBLIC_URL) :
          key \in DOMAIN bucket

====
